---- MODULE Spec2Model ----
(***************************************************************************)
(* Model of the spec matching and dimension validation engine              *)
(* (utils/validation: toSlug, colLetterToIndex, extractNumbers,            *)
(* parseSpecFile, findAllMatchingSpecs, validateDimensions).               *)
(*                                                                         *)
(* Representation.                                                         *)
(*  - A JavaScript string is a sequence of characters; a character is a    *)
(*    one-character TLA+ string ("a", "-", " "), or the name of a code     *)
(*    point outside ASCII ("U+212A").                                      *)
(*  - A JavaScript value (a cell, an optional argument) is a record        *)
(*    [t, s, n]: t is the typeof tag, s the characters of a string, n the  *)
(*    number of a number.                                                  *)
(*  - A number is a decimal fixed-point integer: the value times Scale.    *)
(***************************************************************************)
EXTENDS Integers, Sequences, FiniteSets, TLC

\* The call under study: its position, its arguments and what it returned
VARIABLES pc, args, ret

\* The state of the App component: the reference table (the state specs),
\* the single analysis, the view, the batch, the objects the batch items
\* are, the handlers that are waiting for a file read, an extraction call
\* or a timer, and the file reads and extraction calls issued so far
VARIABLES specsState, analysis, isBatchMode, batchState, heap, tasks, calls

\* The reference file that was selected last and the column range that
\* was applied last (the states currentSpecFile and specConfig)
VARIABLES currentSpecFile, specConfig

callVars == <<pc, args, ret>>

appVars == <<currentSpecFile, specConfig, specsState, analysis, isBatchMode, batchState, heap, tasks, calls>>

vars == <<pc, args, ret, currentSpecFile, specConfig, specsState, analysis, isBatchMode, batchState, heap, tasks, calls>>

\* The component is not mounted: the call under study runs on its own
NoApp ==
    /\ currentSpecFile = <<>>
    /\ specConfig = <<>>
    /\ specsState = <<>>
    /\ analysis = <<>>
    /\ isBatchMode = FALSE
    /\ batchState = <<>>
    /\ heap = <<>>
    /\ tasks = <<>>
    /\ calls = <<>>

\* ------------------------------------------------------------------------
\* Generic sequence helpers
\* ------------------------------------------------------------------------

Range(s) == {s[i] : i \in 1..Len(s)}

\* Position of the first element of s equal to x, 0 when there is none
IndexOf(s, x) ==
    IF \E i \in 1..Len(s) : s[i] = x
    THEN CHOOSE i \in 1..Len(s) : s[i] = x /\ \A j \in 1..(i - 1) : s[j] # x
    ELSE 0

\* String.prototype.includes: sub occurs in s as a contiguous substring
Includes(s, sub) ==
    \E i \in 0..(Len(s) - Len(sub)) : SubSeq(s, i + 1, i + Len(sub)) = sub

\* Math.abs
Abs(x) == IF x < 0 THEN -x ELSE x

RECURSIVE Pow(_, _)
Pow(b, e) == IF e = 0 THEN 1 ELSE b * Pow(b, e - 1)

\* Array.prototype.splice(i, 1): s without its i-th element
Splice(s, i) == SubSeq(s, 1, i - 1) \o SubSeq(s, i + 1, Len(s))

\* Number of positions of s that hold x
Count(s, x) == Cardinality({i \in 1..Len(s) : s[i] = x})

\* ------------------------------------------------------------------------
\* Numbers
\* ------------------------------------------------------------------------

\* Fractional decimal digits a number carries
FracDigits == 1

\* A number is its value times Scale
Scale == Pow(10, FracDigits)

\* The number i.f, f one decimal digit
Dec(i, f) == i * Scale + f * (Scale \div 10)

RECURSIVE InsertNumber(_, _)
\* x put into the ascending sequence s, after the elements not above it
InsertNumber(s, x) ==
    IF s = <<>> THEN << x >>
    ELSE IF Head(s) <= x THEN << Head(s) >> \o InsertNumber(Tail(s), x)
    ELSE << x >> \o s

RECURSIVE SortNumbers(_)
\* Array.prototype.sort((a, b) => a - b), a stable sort
SortNumbers(s) ==
    IF s = <<>> THEN <<>>
    ELSE InsertNumber(SortNumbers(SubSeq(s, 1, Len(s) - 1)), s[Len(s)])

\* ------------------------------------------------------------------------
\* Characters
\* ------------------------------------------------------------------------

UpperLetters ==
    << "A", "B", "C", "D", "E", "F", "G", "H", "I", "J", "K", "L", "M",
       "N", "O", "P", "Q", "R", "S", "T", "U", "V", "W", "X", "Y", "Z" >>

LowerLetters ==
    << "a", "b", "c", "d", "e", "f", "g", "h", "i", "j", "k", "l", "m",
       "n", "o", "p", "q", "r", "s", "t", "u", "v", "w", "x", "y", "z" >>

Digits == << "0", "1", "2", "3", "4", "5", "6", "7", "8", "9" >>

UpperSet == Range(UpperLetters)
LowerSet == Range(LowerLetters)
DigitSet == Range(Digits)

IsUpper(c) == c \in UpperSet
IsLower(c) == c \in LowerSet
IsDigit(c) == c \in DigitSet

\* The place 1..26 of a letter in the alphabet, the place 1..10 of a digit
UpperIndex == [c \in UpperSet |-> IndexOf(UpperLetters, c)]
LowerIndex == [c \in LowerSet |-> IndexOf(LowerLetters, c)]
DigitIndex == [c \in DigitSet |-> IndexOf(Digits, c)]

\* Code points outside ASCII whose case mapping leaves their own block:
\* KELVIN SIGN lower-cases to "k"; LATIN CAPITAL LETTER I WITH DOT ABOVE
\* lower-cases to "i" followed by COMBINING DOT ABOVE.
KelvinSign == "U+212A"
CapitalIDot == "U+0130"
CombiningDot == "U+0307"

\* String.prototype.toLowerCase on one character (Unicode default case
\* conversion): the characters it becomes
LowerOfChar(c) ==
    IF IsUpper(c) THEN << LowerLetters[UpperIndex[c]] >>
    ELSE IF c = KelvinSign THEN << "k" >>
    ELSE IF c = CapitalIDot THEN << "i", CombiningDot >>
    ELSE << c >>

\* String.prototype.toUpperCase on one character
UpperOfChar(c) ==
    IF IsLower(c) THEN << UpperLetters[LowerIndex[c]] >>
    ELSE << c >>

RECURSIVE toLowerCase(_)
toLowerCase(s) ==
    IF s = <<>> THEN <<>> ELSE LowerOfChar(Head(s)) \o toLowerCase(Tail(s))

RECURSIVE toUpperCase(_)
toUpperCase(s) ==
    IF s = <<>> THEN <<>> ELSE UpperOfChar(Head(s)) \o toUpperCase(Tail(s))

\* String.prototype.charCodeAt for the characters of the model
charCode(c) ==
    IF IsUpper(c) THEN 64 + UpperIndex[c]
    ELSE IF IsLower(c) THEN 96 + LowerIndex[c]
    ELSE IF IsDigit(c) THEN 47 + DigitIndex[c]
    ELSE IF c = " " THEN 32
    ELSE IF c = "-" THEN 45
    ELSE IF c = "." THEN 46
    ELSE IF c = "/" THEN 47
    ELSE IF c = "_" THEN 95
    ELSE IF c = CapitalIDot THEN 304
    ELSE IF c = CombiningDot THEN 775
    ELSE IF c = KelvinSign THEN 8490
    ELSE 0

\* ------------------------------------------------------------------------
\* JavaScript values
\* ------------------------------------------------------------------------

JSUndefined == [t |-> "undefined", s |-> <<>>, n |-> 0]
JSString(s) == [t |-> "string", s |-> s, n |-> 0]
JSNumber(n) == [t |-> "number", s |-> <<>>, n |-> n]
JSNull == [t |-> "null", s |-> <<>>, n |-> 0]

\* !value
Falsy(v) ==
    \/ v.t = "undefined"
    \/ v.t = "null"
    \/ v.t = "string" /\ v.s = <<>>
    \/ v.t = "number" /\ v.n = 0

\* ------------------------------------------------------------------------
\* 1. Normalization (toSlug)
\* ------------------------------------------------------------------------

\* [a-z0-9]
IsSlugChar(c) == IsLower(c) \/ IsDigit(c)

RECURSIVE ReplaceRuns(_, _)
\* .replace(/[^a-z0-9]+/g, '-'): every maximal run of characters outside
\* [a-z0-9] becomes one hyphen; inRun says the previous character belonged
\* to the run being replaced
ReplaceRuns(s, inRun) ==
    IF s = <<>> THEN <<>>
    ELSE IF IsSlugChar(Head(s)) THEN << Head(s) >> \o ReplaceRuns(Tail(s), FALSE)
    ELSE (IF inRun THEN <<>> ELSE << "-" >>) \o ReplaceRuns(Tail(s), TRUE)

RECURSIVE StripLeadingHyphens(_)
StripLeadingHyphens(s) ==
    IF s # <<>> /\ Head(s) = "-" THEN StripLeadingHyphens(Tail(s)) ELSE s

RECURSIVE StripTrailingHyphens(_)
StripTrailingHyphens(s) ==
    IF s # <<>> /\ s[Len(s)] = "-"
    THEN StripTrailingHyphens(SubSeq(s, 1, Len(s) - 1))
    ELSE s

\* .replace(/^-+|-+$/g, '')
StripHyphens(s) == StripTrailingHyphens(StripLeadingHyphens(s))

\* A slip that applies the two replacements in the other order: the ends are
\* trimmed before the separators are turned into hyphens
toSlugTrimFirst(text) ==
    IF Falsy(text) THEN <<>>
    ELSE ReplaceRuns(StripHyphens(toLowerCase(text.s)), FALSE)

\* A slip that leaves out the second replacement: the ends are not trimmed
toSlugNoTrim(text) ==
    IF Falsy(text) THEN <<>>
    ELSE ReplaceRuns(toLowerCase(text.s), FALSE)

\* toSlug(text): text is a JavaScript value, the result a string
toSlug(text) ==
    IF Falsy(text) THEN <<>>
    ELSE StripHyphens(ReplaceRuns(toLowerCase(text.s), FALSE))

\* ------------------------------------------------------------------------
\* Column letters (colLetterToIndex)
\* ------------------------------------------------------------------------

RECURSIVE colLetterLoop(_, _)
\* The loop of colLetterToIndex over the characters left, result so far
colLetterLoop(column, result) ==
    IF column = <<>> THEN result
    ELSE colLetterLoop(Tail(column), result * 26 + (charCode(Head(column)) - 64))

\* A slip that reads the letters as plain base 26 with digits 0..25
colLetterToIndexZeroBased(letter) ==
    LET RECURSIVE loop(_, _)
        loop(column, result) ==
            IF column = <<>> THEN result
            ELSE loop(Tail(column), result * 26 + (charCode(Head(column)) - 65))
    IN loop(toUpperCase(letter), 0)

colLetterToIndex(letter) == colLetterLoop(toUpperCase(letter), 0) - 1

\* ------------------------------------------------------------------------
\* Number extraction (extractNumbers)
\* ------------------------------------------------------------------------

\* The value of a decimal digit
DigitValue(c) == DigitIndex[c] - 1

RECURSIVE NatOfDigits(_, _)
\* The number written by the digits ds, after the digits that gave acc
NatOfDigits(ds, acc) ==
    IF ds = <<>> THEN acc ELSE NatOfDigits(Tail(ds), acc * 10 + DigitValue(Head(ds)))

RECURSIVE DigitRunEnd(_, _)
\* The first position from p on that holds no digit
DigitRunEnd(s, p) ==
    IF p <= Len(s) /\ IsDigit(s[p]) THEN DigitRunEnd(s, p + 1) ELSE p

\* \d*\.?\d+ tried at p: the position after the match, 0 when there is none.
\* The digits from p on, then "." and the digits that follow when there is
\* at least one; a "." no digit follows is left out
UnsignedMatchEnd(s, p) ==
    LET q == DigitRunEnd(s, p) IN
    IF q + 1 <= Len(s) /\ s[q] = "." /\ IsDigit(s[q + 1]) THEN DigitRunEnd(s, q + 1)
    ELSE IF q > p THEN q
    ELSE 0

\* The pattern without its optional sign
MatchEndUnsigned(s, i) == UnsignedMatchEnd(s, i)

\* /-?\d*\.?\d+/ tried at i: the position after the match, 0 when there is
\* none
MatchEnd(s, i) ==
    IF s[i] = "-" THEN UnsignedMatchEnd(s, i + 1) ELSE UnsignedMatchEnd(s, i)

\* Number(text) for a match of the pattern, as a fixed-point number
ParseNumber(text) ==
    LET neg == text[1] = "-"
        body == IF neg THEN Tail(text) ELSE text
        dot == IndexOf(body, ".")
        whole == IF dot = 0 THEN body ELSE SubSeq(body, 1, dot - 1)
        frac == IF dot = 0 THEN <<>> ELSE SubSeq(body, dot + 1, Len(body))
        magnitude == NatOfDigits(whole, 0) * Scale
                        + NatOfDigits(frac, 0) * Pow(10, FracDigits - Len(frac))
    IN IF neg THEN -magnitude ELSE magnitude

RECURSIVE MatchAll(_, _)
\* str.match(/-?\d*\.?\d+/g).map(Number): the matches from position i on,
\* left to right, none overlapping
MatchAll(s, i) ==
    IF i > Len(s) THEN <<>>
    ELSE LET e == MatchEnd(s, i) IN
         IF e = 0 THEN MatchAll(s, i + 1)
         ELSE << ParseNumber(SubSeq(s, i, e - 1)) >> \o MatchAll(s, e)

RECURSIVE DigitsOfNat(_)
\* The decimal digits of a natural number
DigitsOfNat(k) ==
    IF k < 10 THEN << Digits[k + 1] >>
    ELSE DigitsOfNat(k \div 10) \o << Digits[(k % 10) + 1] >>

RECURSIVE FractionDigits(_, _)
\* The digits of the fraction f of width w, without the zeros at the end
FractionDigits(f, w) ==
    IF f = 0 THEN <<>>
    ELSE << Digits[(f \div Pow(10, w - 1)) + 1] >> \o FractionDigits(f % Pow(10, w - 1), w - 1)

\* String(n) for a number
NumberStringOf(n) ==
    (IF n < 0 THEN << "-" >> ELSE <<>>)
        \o DigitsOfNat(Abs(n) \div Scale)
        \o (IF Abs(n) % Scale = 0 THEN <<>>
            ELSE << "." >> \o FractionDigits(Abs(n) % Scale, FracDigits))

\* String(value)
StringOf(value) ==
    IF value.t = "number" THEN NumberStringOf(value.n)
    ELSE IF value.t = "string" THEN value.s
    ELSE << "u", "n", "d", "e", "f", "i", "n", "e", "d" >>

\* value || ''
OrEmpty(value) == IF Falsy(value) THEN JSString(<<>>) ELSE value

extractNumbers(value) ==
    IF value.t = "number" THEN << value.n >>
    ELSE IF Falsy(value) THEN <<>>
    ELSE MatchAll(StringOf(value), 1)

\* ------------------------------------------------------------------------
\* 2. Spec parsing (parseSpecFile)
\* ------------------------------------------------------------------------

IsSpace(c) == c = " "

RECURSIVE TrimStart(_)
TrimStart(s) == IF s # <<>> /\ IsSpace(Head(s)) THEN TrimStart(Tail(s)) ELSE s

RECURSIVE TrimEnd(_)
TrimEnd(s) ==
    IF s # <<>> /\ IsSpace(s[Len(s)]) THEN TrimEnd(SubSeq(s, 1, Len(s) - 1)) ELSE s

\* String.prototype.trim
Trim(s) == TrimEnd(TrimStart(s))

\* /^w1\s*w2$/i tested on s
TestWords(w1, w2, s) ==
    LET l == toLowerCase(s) IN
    /\ Len(l) >= Len(w1) + Len(w2)
    /\ SubSeq(l, 1, Len(w1)) = w1
    /\ SubSeq(l, Len(l) - Len(w2) + 1, Len(l)) = w2
    /\ \A i \in (Len(w1) + 1)..(Len(l) - Len(w2)) : IsSpace(l[i])

\* /^w$/i tested on s
TestExact(w, s) == toLowerCase(s) = w

\* /w/i tested on s
TestContains(w, s) == Includes(toLowerCase(s), w)

\* The words of the patterns
wProduct == << "p", "r", "o", "d", "u", "c", "t" >>
wName == << "n", "a", "m", "e" >>
wModel == << "m", "o", "d", "e", "l" >>
wItem == << "i", "t", "e", "m" >>
wSize == << "s", "i", "z", "e" >>
wDimension == << "d", "i", "m", "e", "n", "s", "i", "o", "n" >>
wId == << "i", "d" >>
wRow == << "r", "o", "w" >>
wSku == << "s", "k", "u" >>

\* productNamePatterns, in their order
productNamePatterns ==
    << [kind |-> "words", w1 |-> wProduct, w2 |-> wName],
       [kind |-> "exact", w1 |-> wProduct, w2 |-> <<>>],
       [kind |-> "words", w1 |-> wModel, w2 |-> wName],
       [kind |-> "exact", w1 |-> wModel, w2 |-> <<>>],
       [kind |-> "words", w1 |-> wItem, w2 |-> wName],
       [kind |-> "exact", w1 |-> wName, w2 |-> <<>>],
       [kind |-> "contains", w1 |-> wName, w2 |-> <<>>] >>

\* pattern.test(s)
TestPattern(pattern, s) ==
    IF pattern.kind = "words" THEN TestWords(pattern.w1, pattern.w2, s)
    ELSE IF pattern.kind = "exact" THEN TestExact(pattern.w1, s)
    ELSE TestContains(pattern.w1, s)

\* keys.find(k => pattern.test(k.trim())): the first such key, in a
\* one-element sequence, or the empty sequence
FindKey(keys, pattern) ==
    LET hits == {i \in 1..Len(keys) : TestPattern(pattern, Trim(keys[i]))} IN
    IF hits = {} THEN <<>>
    ELSE << keys[CHOOSE i \in hits : \A j \in hits : i <= j] >>

\* The literal key used when no header matches a pattern
DefaultProductNameKey == << "P", "r", "o", "d", "u", "c", "t", " ", "N", "a", "m", "e" >>

\* The literal key used when no header is a size column
DefaultSizeKey == << "S", "i", "z", "e" >>

RECURSIVE FindProductNameKeyOrFirst(_, _)
\* A loop that falls back on the first key of the first row
FindProductNameKeyOrFirst(keys, p) ==
    IF p > Len(productNamePatterns) THEN (IF keys = <<>> THEN DefaultProductNameKey ELSE keys[1])
    ELSE LET match == FindKey(keys, productNamePatterns[p]) IN
         IF match # <<>> /\ match[1] # <<>> THEN match[1]
         ELSE FindProductNameKeyOrFirst(keys, p + 1)

RECURSIVE FindProductNameKey(_, _)
\* The loop over the patterns from the p-th on: the key found by the first
\* pattern that finds one that is not the empty string
FindProductNameKey(keys, p) ==
    IF p > Len(productNamePatterns) THEN DefaultProductNameKey
    ELSE LET match == FindKey(keys, productNamePatterns[p]) IN
         IF match # <<>> /\ match[1] # <<>> THEN match[1]
         ELSE FindProductNameKey(keys, p + 1)

\* keys.find(k => /^size$/i.test(k.trim()) || /^dimension$/i.test(k.trim()))
\* || 'Size'
FindSizeKey(keys) ==
    LET hits == {i \in 1..Len(keys) :
                    TestExact(wSize, Trim(keys[i])) \/ TestExact(wDimension, Trim(keys[i]))}
    IN IF hits = {} THEN DefaultSizeKey
       ELSE keys[CHOOSE i \in hits : \A j \in hits : i <= j]

\* The substrings that mark a metadata column
ReservedWords == << wProduct, wName, wSize, wId, wModel, wRow, wSku >>
ReservedWordSet == Range(ReservedWords)

\* row[key]
RowGet(row, key) ==
    IF \E i \in 1..Len(row) : row[i].key = key
    THEN row[CHOOSE i \in 1..Len(row) : row[i].key = key].value
    ELSE JSUndefined

\* Object.keys(row)
RowKeys(row) == [i \in 1..Len(row) |-> row[i].key]

\* A configuration is [present, startCol, endCol]: present is FALSE when
\* parseSpecFile is called without one
NoConfig == [present |-> FALSE, startCol |-> <<>>, endCol |-> <<>>]
Config(startCol, endCol) == [present |-> TRUE, startCol |-> startCol, endCol |-> endCol]

RECURSIVE IndicesFromTo(_, _)
\* The loop for (i = start; i <= end; i++) allowedIndices.push(i)
IndicesFromTo(start, end) ==
    IF start > end THEN <<>> ELSE << start >> \o IndicesFromTo(start + 1, end)

\* A range that is put in order before it is walked
AllowedIndicesEitherWay(config, headers) ==
    IF config.present /\ config.startCol # <<>> /\ config.endCol # <<>>
    THEN LET start == colLetterToIndex(config.startCol)
             end == colLetterToIndex(config.endCol)
         IN IF start <= end THEN IndicesFromTo(start, end) ELSE IndicesFromTo(end, start)
    ELSE [i \in 1..Len(headers) |-> i - 1]

\* allowedIndices (indices count from 0)
AllowedIndices(config, headers) ==
    IF config.present /\ config.startCol # <<>> /\ config.endCol # <<>>
    THEN IndicesFromTo(colLetterToIndex(config.startCol), colLetterToIndex(config.endCol))
    ELSE [i \in 1..Len(headers) |-> i - 1]

RECURSIVE HeadersAt(_, _)
\* allowedIndices.map(i => headers[i]).filter(k => k !== undefined)
HeadersAt(indices, headers) ==
    IF indices = <<>> THEN <<>>
    ELSE (IF Head(indices) >= 0 /\ Head(indices) < Len(headers)
          THEN << headers[Head(indices) + 1] >> ELSE <<>>)
            \o HeadersAt(Tail(indices), headers)

AllowedKeys(config, headers) == HeadersAt(AllowedIndices(config, headers), headers)

\* A test that asks for the key to be one of the reserved words
IsReservedKeyExact(key) ==
    LET keyLower == toLowerCase(key) IN keyLower \in ReservedWordSet

\* The test of the metadata heuristic: the lower-cased key includes one of
\* the reserved words
IsReservedKey(key) ==
    LET keyLower == toLowerCase(key) IN \E w \in ReservedWordSet : Includes(keyLower, w)

\* The column of key is scanned for numbers
IsScanned(config, allowedKeys, key) ==
    IF config.present /\ config.startCol # <<>>
    THEN key \in Range(allowedKeys)
    ELSE ~IsReservedKey(key)

\* A range test that lets the non-positive numbers through
InRangeNoFloor(num) == num < 2000 * Scale

\* num > 0 && num < 2000
InRange(num) == num > 0 /\ num < 2000 * Scale

RECURSIVE KeepInRange(_)
\* The numbers of nums that are pushed, in their order
KeepInRange(nums) ==
    IF nums = <<>> THEN <<>>
    ELSE (IF InRange(Head(nums)) THEN << Head(nums) >> ELSE <<>>) \o KeepInRange(Tail(nums))

RECURSIVE CollectDimensions(_, _, _)
\* Object.entries(row).forEach(...): the numbers pushed for the entries of
\* the row, in their order
CollectDimensions(config, allowedKeys, entries) ==
    IF entries = <<>> THEN <<>>
    ELSE (IF IsScanned(config, allowedKeys, Head(entries).key)
          THEN KeepInRange(extractNumbers(Head(entries).value))
          ELSE <<>>)
            \o CollectDimensions(config, allowedKeys, Tail(entries))

\* The SpecRow made of one row
MapRow(row, keys, productNameKey, config, allowedKeys) ==
    LET productName == Trim(StringOf(OrEmpty(RowGet(row, productNameKey))))
        size == OrEmpty(RowGet(row, FindSizeKey(keys)))
    IN [productName |-> productName,
        productSlug |-> toSlug(JSString(productName)),
        size |-> Trim(StringOf(size)),
        expectedDimensions |-> SortNumbers(CollectDimensions(config, allowedKeys, row)),
        originalRow |-> row]

RECURSIVE FilterSpecsNameOnly(_)
\* A filter that looks at the name alone
FilterSpecsNameOnly(specs) ==
    IF specs = <<>> THEN <<>>
    ELSE (IF Head(specs).productName # <<>> THEN << Head(specs) >> ELSE <<>>)
            \o FilterSpecsNameOnly(Tail(specs))

RECURSIVE FilterSpecs(_)
\* specs.filter(s => s.productName && s.productSlug.length > 0)
FilterSpecs(specs) ==
    IF specs = <<>> THEN <<>>
    ELSE (IF Head(specs).productName # <<>> /\ Len(Head(specs).productSlug) > 0
          THEN << Head(specs) >> ELSE <<>>)
            \o FilterSpecs(Tail(specs))

\* The decimal digits of the suffixes
SuffixDigits == << "1", "2", "3", "4", "5", "6", "7", "8", "9" >>

\* utils.sheet_to_json(worksheet): the key of the column c of the objects.
\* It is the header cell, and the header cell followed by "_" and a count
\* when the same cell heads an earlier column
ObjectKey(headers, c) ==
    LET earlier == Cardinality({b \in 1..(c - 1) : headers[b] = headers[c]}) IN
    IF earlier = 0 THEN headers[c]
    ELSE headers[c] \o << "_", SuffixDigits[earlier] >>

\* utils.sheet_to_json(worksheet) for one row of cells under the headers:
\* the entries of the cells that are not blank, in column order
RowObject(headers, cells) ==
    LET RECURSIVE from(_)
        from(c) ==
            IF c > Len(headers) THEN <<>>
            ELSE (IF cells[c].t = "undefined" THEN <<>>
                  ELSE << [key |-> ObjectKey(headers, c), value |-> cells[c]] >>) \o from(c + 1)
    IN from(1)

RECURSIVE SheetToJson(_, _)
\* utils.sheet_to_json(worksheet): one object per row of cells, the rows
\* whose cells are all blank left out
SheetToJson(headers, grid) ==
    IF grid = <<>> THEN <<>>
    ELSE (IF RowObject(headers, Head(grid)) = <<>> THEN <<>>
          ELSE << RowObject(headers, Head(grid)) >>)
            \o SheetToJson(headers, Tail(grid))

\* The body of reader.onload: the table resolved for the worksheet whose
\* first row is headers and whose other rows are grid
parseSpecFile(headers, grid, config) ==
    LET jsonData == SheetToJson(headers, grid) IN
    IF Len(jsonData) = 0 THEN <<>>
    ELSE LET keys == RowKeys(jsonData[1])
             productNameKey == FindProductNameKey(keys, 1)
             allowedKeys == AllowedKeys(config, headers)
             specs == [r \in 1..Len(jsonData) |->
                          MapRow(jsonData[r], keys, productNameKey, config, allowedKeys)]
         IN FilterSpecs(specs)

\* ------------------------------------------------------------------------
\* 3. Matching (findAllMatchingSpecs, findMatchingSpec)
\* ------------------------------------------------------------------------

\* Position of the last "." of s, 0 when there is none
LastDot(s) ==
    IF \E i \in 1..Len(s) : s[i] = "."
    THEN CHOOSE i \in 1..Len(s) : s[i] = "." /\ \A j \in (i + 1)..Len(s) : s[j] # "."
    ELSE 0

\* fileName.replace(/\.[^/.]+$/, ""): the last "." and what follows it are
\* dropped when at least one character follows and none of them is "/"
StripExtension(fileName) ==
    LET d == LastDot(fileName) IN
    IF d > 0 /\ d < Len(fileName) /\ \A j \in (d + 1)..Len(fileName) : fileName[j] # "/"
    THEN SubSeq(fileName, 1, d - 1)
    ELSE fileName

\* Characters that sort before the digits, in collation order
CollationPunctuation == << " ", "_", "-", ".", "/" >>

\* The primary collation weight of a character: separators, then digits,
\* then letters whatever their case
PrimaryWeight(c) ==
    IF IsLower(c) THEN 100 + LowerIndex[c]
    ELSE IF IsUpper(c) THEN 100 + UpperIndex[c]
    ELSE IF IsDigit(c) THEN 50 + DigitIndex[c]
    ELSE IndexOf(CollationPunctuation, c)

\* The case weight of a character: a small letter sorts before its capital
CaseWeight(c) == IF IsUpper(c) THEN 1 ELSE 0

RECURSIVE CompareWeights(_, _)
\* Lexicographic comparison of two sequences of weights: -1, 0 or 1
CompareWeights(a, b) ==
    IF a = <<>> /\ b = <<>> THEN 0
    ELSE IF a = <<>> THEN -1
    ELSE IF b = <<>> THEN 1
    ELSE IF Head(a) < Head(b) THEN -1
    ELSE IF Head(a) > Head(b) THEN 1
    ELSE CompareWeights(Tail(a), Tail(b))

\* String.prototype.localeCompare (root collation): the primary weights of
\* the whole strings decide first, then the case of the letters
localeCompare(a, b) ==
    LET primary == CompareWeights([i \in 1..Len(a) |-> PrimaryWeight(a[i])],
                                  [i \in 1..Len(b) |-> PrimaryWeight(b[i])])
    IN IF primary # 0 THEN primary
       ELSE CompareWeights([i \in 1..Len(a) |-> CaseWeight(a[i])],
                           [i \in 1..Len(b) |-> CaseWeight(b[i])])

\* A comparator that ranks the shorter slug first
compareCandidatesShortestFirst(a, b) ==
    IF Len(b.productSlug) # Len(a.productSlug)
    THEN Len(a.productSlug) - Len(b.productSlug)
    ELSE localeCompare(a.productName, b.productName)

\* The comparator of candidates.sort: longest slug first, then product name
compareCandidates(a, b) ==
    IF Len(b.productSlug) # Len(a.productSlug)
    THEN Len(b.productSlug) - Len(a.productSlug)
    ELSE localeCompare(a.productName, b.productName)

RECURSIVE InsertCandidate(_, _)
\* x put into the sorted sequence s, after the elements that do not compare
\* above it
InsertCandidate(s, x) ==
    IF s = <<>> THEN << x >>
    ELSE IF compareCandidates(Head(s), x) <= 0
         THEN << Head(s) >> \o InsertCandidate(Tail(s), x)
    ELSE << x >> \o s

RECURSIVE SortCandidates(_)
\* candidates.sort(compare), a stable sort
SortCandidates(s) ==
    IF s = <<>> THEN <<>>
    ELSE InsertCandidate(SortCandidates(SubSeq(s, 1, Len(s) - 1)), s[Len(s)])

\* A candidate test that asks the file slug to start with the product slug
IsCandidatePrefix(fileSlug, spec) ==
    /\ spec.productSlug # <<>>
    /\ Len(spec.productSlug) <= Len(fileSlug)
    /\ SubSeq(fileSlug, 1, Len(spec.productSlug)) = spec.productSlug

\* The body of the loop over specs: the slug is not empty and the file slug
\* includes it
IsCandidate(fileSlug, spec) ==
    /\ spec.productSlug # <<>>
    /\ Includes(fileSlug, spec.productSlug)

RECURSIVE SelectCandidates(_, _)
\* The candidates pushed by the loop over specs, in the order of specs
SelectCandidates(fileSlug, specs) ==
    IF specs = <<>> THEN <<>>
    ELSE (IF IsCandidate(fileSlug, Head(specs)) THEN << Head(specs) >> ELSE <<>>)
            \o SelectCandidates(fileSlug, Tail(specs))

findAllMatchingSpecs(fileName, specs) ==
    LET fileStem == StripExtension(fileName)
        fileSlug == toSlug(JSString(fileStem))
        candidates == SelectCandidates(fileSlug, specs)
    IN IF fileSlug = <<>> THEN <<>>
       ELSE IF candidates = <<>> THEN <<>>
       ELSE SortCandidates(candidates)

\* findMatchingSpec: the first match, or none (the empty sequence stands
\* for undefined, a one-element sequence for the entry)
findMatchingSpec(fileName, specs) ==
    LET matches == findAllMatchingSpecs(fileName, specs)
    IN IF Len(matches) > 0 THEN << matches[1] >> ELSE <<>>

\* ------------------------------------------------------------------------
\* 4. Validation (validateDimensions)
\* ------------------------------------------------------------------------

\* A tolerance of one whole unit
TOLERANCE_Wide == Scale

\* const TOLERANCE = 0.5
TOLERANCE == Scale \div 2

\* Number.MAX_VALUE: above every difference the model can form
MAX_VALUE == 2147483647

RECURSIVE ScanPoolFirstWithin(_, _, _, _, _)
\* An inner loop that keeps the first position within the tolerance
ScanPoolFirstWithin(exp, extra, i, bestMatchIdx, minDiff) ==
    IF i > Len(extra) THEN [bestMatchIdx |-> bestMatchIdx, minDiff |-> minDiff]
    ELSE LET diff == Abs(exp - extra[i]) IN
         IF diff <= TOLERANCE /\ bestMatchIdx = 0
         THEN ScanPoolFirstWithin(exp, extra, i + 1, i, diff)
         ELSE ScanPoolFirstWithin(exp, extra, i + 1, bestMatchIdx, minDiff)

RECURSIVE ScanPool(_, _, _, _, _)
\* The inner loop: the first position of extra nearest to exp among those
\* within the tolerance (0 when there is none), and its distance
ScanPool(exp, extra, i, bestMatchIdx, minDiff) ==
    IF i > Len(extra) THEN [bestMatchIdx |-> bestMatchIdx, minDiff |-> minDiff]
    ELSE LET diff == Abs(exp - extra[i]) IN
         IF diff <= TOLERANCE /\ diff < minDiff
         THEN ScanPool(exp, extra, i + 1, i, diff)
         ELSE ScanPool(exp, extra, i + 1, bestMatchIdx, minDiff)

\* A removal that leaves the pool as it is
RemoveMatchedKeep(extra, bestMatchIdx) == extra

\* extra.splice(bestMatchIdx, 1)
RemoveMatched(extra, bestMatchIdx) == Splice(extra, bestMatchIdx)

RECURSIVE MatchExpectedUntilMissing(_, _, _, _)
\* A loop that ends at the first expected value without a partner
MatchExpectedUntilMissing(sortedExpected, extra, matches, missing) ==
    IF sortedExpected = <<>>
    THEN [matches |-> matches, missing |-> missing, extra |-> extra]
    ELSE LET exp == Head(sortedExpected)
             best == ScanPool(exp, extra, 1, 0, MAX_VALUE)
         IN IF best.bestMatchIdx # 0
            THEN MatchExpectedUntilMissing(Tail(sortedExpected),
                                           RemoveMatched(extra, best.bestMatchIdx),
                                           Append(matches, [expected |-> exp,
                                                            detected |-> extra[best.bestMatchIdx],
                                                            diff |-> best.minDiff]),
                                           missing)
            ELSE [matches |-> matches, missing |-> Append(missing, exp), extra |-> extra]

RECURSIVE MatchExpected(_, _, _, _)
\* The loop over sortedExpected: the matches, the missing and the extra
\* values once every expected value has been handled
MatchExpected(sortedExpected, extra, matches, missing) ==
    IF sortedExpected = <<>>
    THEN [matches |-> matches, missing |-> missing, extra |-> extra]
    ELSE LET exp == Head(sortedExpected)
             best == ScanPool(exp, extra, 1, 0, MAX_VALUE)
         IN IF best.bestMatchIdx # 0
            THEN MatchExpected(Tail(sortedExpected),
                               RemoveMatched(extra, best.bestMatchIdx),
                               Append(matches, [expected |-> exp,
                                                detected |-> extra[best.bestMatchIdx],
                                                diff |-> best.minDiff]),
                               missing)
            ELSE MatchExpected(Tail(sortedExpected), extra, matches,
                               Append(missing, exp))

\* A classification with MISSING and EXTRA the wrong way round
ClassifySwapped(missing, extra) ==
    IF Len(missing) = 0 /\ Len(extra) = 0 THEN "PERFECT"
    ELSE IF Len(missing) > 0 /\ Len(extra) = 0 THEN "EXTRA"
    ELSE IF Len(missing) = 0 /\ Len(extra) > 0 THEN "MISSING"
    ELSE "MISMATCH"

\* The status chosen from the two lists
Classify(missing, extra) ==
    IF Len(missing) = 0 /\ Len(extra) = 0 THEN "PERFECT"
    ELSE IF Len(missing) > 0 /\ Len(extra) = 0 THEN "MISSING"
    ELSE IF Len(missing) = 0 /\ Len(extra) > 0 THEN "EXTRA"
    ELSE "MISMATCH"

validateDimensions(detected, spec) ==
    LET sortedDetected == SortNumbers(detected)
        sortedExpected == SortNumbers(spec.expectedDimensions)
        r == MatchExpected(sortedExpected, sortedDetected, <<>>, <<>>)
    IN [status |-> Classify(r.missing, r.extra),
        matchedRow |-> spec,
        matches |-> r.matches,
        missing |-> r.missing,
        extra |-> r.extra]

\* ------------------------------------------------------------------------
\* Specification of the calls of toSlug
\* ------------------------------------------------------------------------

MaxTextLen == 4

SlugAlphabet == {"a", "Z", "7", "-", " ", ".", KelvinSign, CapitalIDot}

\* toSlug is called with an absent text, or with a string
SlugInit ==
    /\ pc = "call"
    /\ \/ args = [text |-> JSUndefined]
       \/ \E len \in 0..MaxTextLen : \E s \in [1..len -> SlugAlphabet] :
              args = [text |-> JSString(s)]
    /\ ret = <<>>
    /\ NoApp

SlugCall ==
    /\ pc = "call"
    /\ ret' = toSlug(args.text)
    /\ pc' = "done"
    /\ UNCHANGED args
    /\ UNCHANGED appVars

SlugNext == SlugCall

SlugSpec == SlugInit /\ [][SlugNext]_vars

\* ---- Claims about toSlug ----

\* The characters of s all belong to [a-z0-9-]
OnlySlugChars(s) == \A i \in 1..Len(s) : IsSlugChar(s[i]) \/ s[i] = "-"

\* s neither starts nor ends with a hyphen and holds no two hyphens in a row
HyphensCanonical(s) ==
    /\ s # <<>> => s[1] # "-" /\ s[Len(s)] # "-"
    /\ \A i \in 1..(Len(s) - 1) : ~(s[i] = "-" /\ s[i + 1] = "-")

\* [a-zA-Z0-9]
IsAsciiAlnum(c) == IsLower(c) \/ IsUpper(c) \/ IsDigit(c)

\* C6: toSlug is idempotent: slugifying the slug of any text gives the slug
\* back.
C6_SlugIdempotent ==
    pc = "done" => toSlug(JSString(ret)) = ret

\* A text with separators and capitals whose slug differs from it and is not
\* empty
C6_Witness ==
    /\ pc = "done"
    /\ args.text.s = << " ", "Z", " ", "a" >>
    /\ ret = << "z", "-", "a" >>

\* C7 as stated: the slug of every input holds only [a-z0-9-], has no hyphen
\* at either end and no two hyphens in a row, and is empty when the input is
\* empty or absent or holds no character of [a-zA-Z0-9].
C7_SlugCanonicalAscii ==
    pc = "done" =>
        /\ OnlySlugChars(ret)
        /\ HyphensCanonical(ret)
        /\ (Falsy(args.text) \/ \A i \in 1..Len(args.text.s) : ~IsAsciiAlnum(args.text.s[i]))
               => ret = <<>>

\* C7 as amended: the same, the slug being empty when the input is empty or
\* absent or holds no character whose lower-case form has a character of
\* [a-z0-9].
C7_SlugCanonical ==
    pc = "done" =>
        /\ OnlySlugChars(ret)
        /\ HyphensCanonical(ret)
        /\ (Falsy(args.text)
              \/ \A i \in 1..Len(args.text.s) :
                    \A k \in 1..Len(LowerOfChar(args.text.s[i])) :
                        ~IsSlugChar(LowerOfChar(args.text.s[i])[k]))
               => ret = <<>>

\* An input of separators only has been slugified to the empty string
C7_Witness ==
    /\ pc = "done"
    /\ args.text.s = << " ", "-", ".", " " >>
    /\ ret = <<>>

\* ------------------------------------------------------------------------
\* Specification of the calls of colLetterToIndex
\* ------------------------------------------------------------------------

MaxColLen == 2

ColAlphabet == UpperSet \cup LowerSet

ColInit ==
    /\ pc = "call"
    /\ \E len \in 1..MaxColLen : \E s \in [1..len -> ColAlphabet] :
          args = [letter |-> s]
    /\ ret = 0
    /\ NoApp

ColCall ==
    /\ pc = "call"
    /\ ret' = colLetterToIndex(args.letter)
    /\ pc' = "done"
    /\ UNCHANGED args
    /\ UNCHANGED appVars

ColNext == ColCall

ColSpec == ColInit /\ [][ColNext]_vars

\* ---- Claims about colLetterToIndex ----

\* The value 1..26 of a letter, whatever its case
LetterValue(c) ==
    IF IsUpper(c) THEN UpperIndex[c] ELSE LowerIndex[c]

RECURSIVE SumOver(_, _)
\* Sum of f[i] for i in 1..n
SumOver(f, n) == IF n = 0 THEN 0 ELSE f[n] + SumOver(f, n - 1)

\* Bijective base 26: the sum of value_i * 26^(n-i) over the letters
BijectiveBase26(s) ==
    SumOver([i \in 1..Len(s) |-> LetterValue(s[i]) * Pow(26, Len(s) - i)], Len(s))

RECURSIVE NextColumn(_)
\* The column after s in a spreadsheet (s in capitals): Z -> AA, AZ -> BA
NextColumn(s) ==
    IF s = <<>> THEN << "A" >>
    ELSE IF s[Len(s)] = "Z" THEN NextColumn(SubSeq(s, 1, Len(s) - 1)) \o << "A" >>
    ELSE SubSeq(s, 1, Len(s) - 1) \o << UpperLetters[UpperIndex[s[Len(s)]] + 1] >>

\* C8: colLetterToIndex is spreadsheet bijective base 26 minus one (A=0,
\* Z=25, AA=26, AB=27), whatever the case of the letters, and strictly
\* increasing in column order: the next column has the next index.
C8_ColumnIndex ==
    /\ colLetterToIndex(<< "A" >>) = 0
    /\ colLetterToIndex(<< "Z" >>) = 25
    /\ colLetterToIndex(<< "A", "A" >>) = 26
    /\ colLetterToIndex(<< "A", "B" >>) = 27
    /\ pc = "done" =>
          /\ ret = BijectiveBase26(args.letter) - 1
          /\ ret = colLetterToIndex(toUpperCase(args.letter))
          /\ ret = colLetterToIndex(toLowerCase(args.letter))
          /\ colLetterToIndex(NextColumn(toUpperCase(args.letter))) = ret + 1

\* A two-letter column in small letters has been converted
C8_Witness ==
    /\ pc = "done"
    /\ args.letter = << "a", "b" >>
    /\ ret = 27

\* ------------------------------------------------------------------------
\* Specification of the calls of extractNumbers
\* ------------------------------------------------------------------------

MaxCellLen == 4

\* The characters of the text cells: two digits, the sign, the point and a
\* letter
CellAlphabet == { "2", "4", "-", ".", "x" }

\* The numeric cells: 0, 24.5 and -3
NumericCells == { JSNumber(0), JSNumber(Dec(24, 5)), JSNumber(-Dec(3, 0)) }

\* No point of the text is followed by more digits than a number of the
\* model has
FitsFraction(s) ==
    \A i \in 1..Len(s) :
        s[i] = "." =>
            \E j \in (i + 1)..(i + FracDigits + 1) :
                IF j > Len(s) THEN TRUE ELSE ~IsDigit(s[j])

ExtractInit ==
    /\ pc = "call"
    /\ \/ args \in {[value |-> JSUndefined], [value |-> JSNull]}
       \/ \E v \in NumericCells : args = [value |-> v]
       \/ \E n \in 0..MaxCellLen :
             \E s \in [1..n -> CellAlphabet] :
                 /\ FitsFraction(s)
                 /\ args = [value |-> JSString(s)]
    /\ ret = <<>>
    /\ NoApp

ExtractCall ==
    /\ pc = "call"
    /\ ret' = extractNumbers(args.value)
    /\ pc' = "done"
    /\ UNCHANGED args
    /\ UNCHANGED appVars

ExtractNext == ExtractCall

ExtractSpec == ExtractInit /\ [][ExtractNext]_vars

\* ---- Claims about extractNumbers ----

\* The text is a numeral: an optional "-", digits, and, optionally, a "."
\* before the last run of digits, which is not empty
IsNumeral(text) ==
    LET body == IF text # <<>> /\ text[1] = "-" THEN Tail(text) ELSE text IN
    /\ body # <<>>
    /\ IsDigit(body[Len(body)])
    /\ \A i \in 1..Len(body) : IsDigit(body[i]) \/ body[i] = "."
    /\ Cardinality({i \in 1..Len(body) : body[i] = "."}) <= 1

\* The ends (the position after the last character) of the numerals of s
\* that begin at i
NumeralEnds(s, i) == {e \in (i + 1)..(Len(s) + 1) : IsNumeral(SubSeq(s, i, e - 1))}

\* The value of a numeral: its digits read in base ten, the point placed,
\* the sign applied
NumeralValue(text) ==
    LET neg == text[1] = "-"
        body == IF neg THEN Tail(text) ELSE text
        digits == SelectSeq(body, LAMBDA c : c # ".")
        after == IF IndexOf(body, ".") = 0 THEN 0 ELSE Len(body) - IndexOf(body, ".")
        magnitude == NatOfDigits(digits, 0) * Pow(10, FracDigits - after)
    IN IF neg THEN -magnitude ELSE magnitude

RECURSIVE NumeralsFrom(_, _)
\* The values of the numerals of s read from position i on, left to
\* right: the next one begins at the first position where a numeral
\* begins, a "-" before digits being such a position, and is the longest
\* that begins there; the reading goes on after its last character
NumeralsFrom(s, i) ==
    IF i > Len(s) THEN <<>>
    ELSE IF NumeralEnds(s, i) = {} THEN NumeralsFrom(s, i + 1)
    ELSE LET e == CHOOSE x \in NumeralEnds(s, i) : \A y \in NumeralEnds(s, i) : y <= x
         IN << NumeralValue(SubSeq(s, i, e - 1)) >> \o NumeralsFrom(s, e)

\* "24-36" yields 24 and -36, "24x36" yields 24 and 36
SignExamples ==
    /\ extractNumbers(JSString(<< "2", "4", "-", "3", "6" >>)) = << Dec(24, 0), -Dec(36, 0) >>
    /\ extractNumbers(JSString(<< "2", "4", "x", "3", "6" >>)) = << Dec(24, 0), Dec(36, 0) >>

\* C22: extractNumbers is total: a numeric cell yields the sequence of that
\* one number, an absent, null or empty cell the empty sequence, and any
\* other cell, as text, one number per match of the numeral pattern, left
\* to right and without overlap, a "-" just before a numeral being its
\* sign; a text without a digit yields the empty sequence.
C22_ExtractNumbers ==
    /\ SignExamples
    /\ pc = "done" =>
          /\ args.value.t = "number" => ret = << args.value.n >>
          /\ args.value.t \in {"undefined", "null"} => ret = <<>>
          /\ args.value.t = "string" =>
                /\ ret = NumeralsFrom(args.value.s, 1)
                /\ (\A i \in 1..Len(args.value.s) : ~IsDigit(args.value.s[i])) => ret = <<>>

\* The text "2-.4": 2, and -0.4, whose sign is the "-" before the point
C22_Witness ==
    /\ pc = "done"
    /\ args.value = JSString(<< "2", "-", ".", "4" >>)
    /\ ret = << Dec(2, 0), -4 >>

\* ------------------------------------------------------------------------
\* Specification of the calls of validateDimensions
\* ------------------------------------------------------------------------

MaxDetected == 3
MaxExpected == 2

\* 12, 23.6, 24, 24.1, 24.5, 24.6 and 30
DimValues ==
    {Dec(12, 0), Dec(23, 6), Dec(24, 0), Dec(24, 1), Dec(24, 5), Dec(24, 6), Dec(30, 0)}

IsAscending(s) == \A i \in 1..(Len(s) - 1) : s[i] <= s[i + 1]

\* A reference entry as parseSpecFile builds it, with the given expected
\* dimensions
EntryWith(productName, expectedDimensions) ==
    [productName |-> productName,
     productSlug |-> toSlug(JSString(productName)),
     size |-> <<>>,
     expectedDimensions |-> expectedDimensions,
     originalRow |-> <<>>]

\* validateDimensions is called with any detected numbers and an entry
\* whose expected dimensions are ascending, as parseSpecFile leaves them
ValidateInit ==
    /\ pc = "call"
    /\ \E nd \in 0..MaxDetected, ne \in 0..MaxExpected :
          \E d \in [1..nd -> DimValues], e \in [1..ne -> DimValues] :
              /\ IsAscending(e)
              /\ args = [detected |-> d, spec |-> EntryWith(<< "t" >>, e)]
    /\ ret = <<>>
    /\ NoApp

ValidateCall ==
    /\ pc = "call"
    /\ ret' = validateDimensions(args.detected, args.spec)
    /\ pc' = "done"
    /\ UNCHANGED args
    /\ UNCHANGED appVars

ValidateNext == ValidateCall

ValidateSpec == ValidateInit /\ [][ValidateNext]_vars

\* ---- Claims about validateDimensions ----

\* The detected values and the expected values of the matched pairs
MatchedDetected(r) == [i \in 1..Len(r.matches) |-> r.matches[i].detected]
MatchedExpected(r) == [i \in 1..Len(r.matches) |-> r.matches[i].expected]

\* Within half a unit of each other
Near(a, b) == 2 * Abs(a - b) <= Scale

\* C1: validateDimensions loses and invents nothing: the detected values are,
\* as a multiset, the detected values of the matched pairs plus the extra
\* ones, and the expected values those of the matched pairs plus the missing
\* ones.
C1_Reconciliation ==
    pc = "done" =>
        /\ \A x \in Range(args.detected) \cup Range(MatchedDetected(ret)) \cup Range(ret.extra) :
              Count(args.detected, x) = Count(MatchedDetected(ret), x) + Count(ret.extra, x)
        /\ \A x \in Range(args.spec.expectedDimensions) \cup Range(MatchedExpected(ret))
                      \cup Range(ret.missing) :
              Count(args.spec.expectedDimensions, x)
                  = Count(MatchedExpected(ret), x) + Count(ret.missing, x)

\* One detected 24 against two expected 24: one pair, one missing
C1_Witness ==
    /\ pc = "done"
    /\ args.detected = << Dec(24, 0) >>
    /\ args.spec.expectedDimensions = << Dec(24, 0), Dec(24, 0) >>
    /\ Len(ret.matches) = 1
    /\ ret.missing = << Dec(24, 0) >>

\* C2: the status is decided by the two lists alone: PERFECT when both are
\* empty, MISSING when only missing is not, EXTRA when only extra is not,
\* MISMATCH when neither is; it is never NO_MATCH.
C2_StatusFromLists ==
    pc = "done" =>
        /\ ret.status = "PERFECT" <=> (ret.missing = <<>> /\ ret.extra = <<>>)
        /\ ret.status = "MISSING" <=> (ret.missing # <<>> /\ ret.extra = <<>>)
        /\ ret.status = "EXTRA" <=> (ret.missing = <<>> /\ ret.extra # <<>>)
        /\ ret.status = "MISMATCH" <=> (ret.missing # <<>> /\ ret.extra # <<>>)
        /\ ret.status # "NO_MATCH"

\* Nothing detected against an entry that expects a value: MISSING
C2_Witness ==
    /\ pc = "done"
    /\ args.detected = <<>>
    /\ args.spec.expectedDimensions # <<>>
    /\ ret.status = "MISSING"

\* The examples of the spec: [30,12] against [24,12] is a MISMATCH with 24
\* missing and 30 extra, [24,12,99] is EXTRA with 99, [24] is MISSING with 12
SpecExamples ==
    /\ LET r == validateDimensions(<< Dec(30, 0), Dec(12, 0) >>,
                                   EntryWith(<< "t" >>, << Dec(24, 0), Dec(12, 0) >>))
       IN r.status = "MISMATCH" /\ r.missing = << Dec(24, 0) >> /\ r.extra = << Dec(30, 0) >>
    /\ LET r == validateDimensions(<< Dec(24, 0), Dec(12, 0), Dec(99, 0) >>,
                                   EntryWith(<< "t" >>, << Dec(24, 0), Dec(12, 0) >>))
       IN r.status = "EXTRA" /\ r.extra = << Dec(99, 0) >>
    /\ LET r == validateDimensions(<< Dec(24, 0) >>,
                                   EntryWith(<< "t" >>, << Dec(24, 0), Dec(12, 0) >>))
       IN r.status = "MISSING" /\ r.missing = << Dec(12, 0) >>

\* C3: a detected value farther than 0.5 from every expected value is left
\* in extra, an expected value farther than 0.5 from every detected value is
\* left in missing (so [30,12] against [24,12] is a MISMATCH with 24 missing
\* and 30 extra, [24,12,99] is EXTRA with 99, [24] is MISSING with 12).
C3_FarValuesUnmatched ==
    /\ SpecExamples
    /\ pc = "done" =>
          /\ \A d \in Range(args.detected) :
                (\A e \in Range(args.spec.expectedDimensions) : ~Near(e, d))
                    => Count(ret.extra, d) = Count(args.detected, d)
          /\ \A e \in Range(args.spec.expectedDimensions) :
                (\A d \in Range(args.detected) : ~Near(e, d))
                    => Count(ret.missing, e) = Count(args.spec.expectedDimensions, e)

\* [30, 12] against [12, 24]: 24 is missing and 30 is extra
C3_Witness ==
    /\ pc = "done"
    /\ args.detected = << Dec(30, 0), Dec(12, 0) >>
    /\ args.spec.expectedDimensions = << Dec(12, 0), Dec(24, 0) >>
    /\ ret.status = "MISMATCH"
    /\ ret.missing = << Dec(24, 0) >>
    /\ ret.extra = << Dec(30, 0) >>

\* The positions of the pool within half a unit of e
WithinTolerance(e, pool) == {i \in 1..Len(pool) : 2 * Abs(e - pool[i]) <= Scale}

RECURSIVE PairedInTurn(_, _, _, _, _)
\* The expected values E are handled one after the other against the pool
\* of detected values not yet consumed: the next one is the next of the
\* missing exactly when no value of the pool is within half a unit of it,
\* and is otherwise in the next of the pairs, with a value of the pool
\* that is within half a unit and as near as any such value, and with
\* their distance; what is left of the pool at the end is extra
PairedInTurn(E, pool, M, X, extra) ==
    IF E = <<>> THEN M = <<>> /\ X = <<>> /\ pool = extra
    ELSE LET e == Head(E)
             within == WithinTolerance(e, pool)
         IN IF within = {}
            THEN /\ X # <<>>
                 /\ Head(X) = e
                 /\ PairedInTurn(Tail(E), pool, M, Tail(X), extra)
            ELSE /\ M # <<>>
                 /\ Head(M).expected = e
                 /\ Head(M).diff = Abs(e - Head(M).detected)
                 /\ \E i \in within :
                       /\ pool[i] = Head(M).detected
                       /\ \A j \in within : Abs(e - pool[i]) <= Abs(e - pool[j])
                       /\ PairedInTurn(Tail(E), Splice(pool, i), Tail(M), X, extra)

\* C17: validateDimensions handles the expected values in ascending order
\* and pairs each with a detected value not yet consumed that is nearest
\* to it among those within 0.5, recording their distance; an expected
\* value is missing only when no remaining detected value is within 0.5.
\* The tolerance is inclusive: at a distance of exactly 0.5 the two are
\* paired, at any greater distance they are not.
C17_NearestWithinTolerance ==
    pc = "done" =>
        /\ PairedInTurn(SortNumbers(args.spec.expectedDimensions),
                        SortNumbers(args.detected), ret.matches, ret.missing, ret.extra)
        /\ \A i \in 1..Len(ret.matches) : ret.matches[i].diff <= TOLERANCE
        /\ (Len(args.detected) = 1 /\ Len(args.spec.expectedDimensions) = 1) =>
              (Len(ret.matches) = 1
                  <=> Abs(args.detected[1] - args.spec.expectedDimensions[1]) <= TOLERANCE)

\* 24 is expected twice and 24.5, 23.6 and 24.6 are detected: the first 24
\* is paired with 23.6, the nearest, the second with 24.5, at exactly 0.5,
\* and 24.6, at 0.6, is extra
C17_Witness ==
    /\ pc = "done"
    /\ args.detected = << Dec(24, 5), Dec(23, 6), Dec(24, 6) >>
    /\ args.spec.expectedDimensions = << Dec(24, 0), Dec(24, 0) >>
    /\ ret.matches = << [expected |-> Dec(24, 0), detected |-> Dec(23, 6), diff |-> 4],
                        [expected |-> Dec(24, 0), detected |-> Dec(24, 5), diff |-> TOLERANCE] >>
    /\ ret.missing = <<>>
    /\ ret.extra = << Dec(24, 6) >>

\* The greatest of a finite set of numbers
MaxOf(S) == CHOOSE x \in S : \A y \in S : y <= x

RECURSIVE MaxPairing(_, _)
\* The greatest number of pairs of a one-to-one pairing of values of E with
\* values of D in which the two values of every pair are within half a
\* unit of each other
MaxPairing(E, D) ==
    IF E = <<>> THEN 0
    ELSE MaxOf({MaxPairing(Tail(E), D)}
                  \cup {1 + MaxPairing(Tail(E), Splice(D, i)) : i \in WithinTolerance(Head(E), D)})

\* No detected value is within half a unit of two different expected values
PartnersApart(E, D) ==
    \A i \in 1..Len(D) : \A j, k \in 1..Len(E) :
        (Near(E[j], D[i]) /\ Near(E[k], D[i])) => E[j] = E[k]

\* C24 as stated: the number of pairs is the greatest that a one-to-one
\* pairing within the tolerance can have, so that the status is PERFECT
\* whenever all the expected values can be paired with all the detected
\* values.
C24_MaximumPairing ==
    pc = "done" =>
        LET E == args.spec.expectedDimensions
            D == args.detected
        IN /\ Len(ret.matches) = MaxPairing(E, D)
           /\ (Len(E) = Len(D) /\ MaxPairing(E, D) = Len(E)) => ret.status = "PERFECT"

\* C24 as amended: the pairing is greedy. It never has more pairs than the
\* greatest pairing and it cannot be extended (no missing value is within
\* half a unit of an extra value), but it can have fewer pairs; it has as
\* many, and the status is PERFECT whenever a complete pairing exists,
\* when no detected value is within half a unit of two different expected
\* values.
C24_GreedyPairing ==
    pc = "done" =>
        LET E == args.spec.expectedDimensions
            D == args.detected
        IN /\ Len(ret.matches) <= MaxPairing(E, D)
           /\ \A i \in 1..Len(ret.missing) : \A j \in 1..Len(ret.extra) :
                 ~Near(ret.missing[i], ret.extra[j])
           /\ PartnersApart(E, D) =>
                 /\ Len(ret.matches) = MaxPairing(E, D)
                 /\ (Len(E) = Len(D) /\ MaxPairing(E, D) = Len(E)) => ret.status = "PERFECT"

\* 24 and 24.5 are expected, 24 and 23.6 detected: 24 takes 24, the
\* nearest, and 24.5 is missing, though 24 with 23.6 and 24.5 with 24 is a
\* complete pairing
C24_Witness ==
    /\ pc = "done"
    /\ args.spec.expectedDimensions = << Dec(24, 0), Dec(24, 5) >>
    /\ args.detected = << Dec(24, 0), Dec(23, 6) >>
    /\ MaxPairing(args.spec.expectedDimensions, args.detected) = 2
    /\ ret.status = "MISMATCH"
    /\ Len(ret.matches) = 1
    /\ ret.missing = << Dec(24, 5) >>
    /\ ret.extra = << Dec(23, 6) >>

\* ------------------------------------------------------------------------
\* Specification of the calls of findAllMatchingSpecs
\* ------------------------------------------------------------------------

MaxSpecs == 2
MaxFileLen == 4

\* The product names of the reference tables: "a", "A", "b", "ab", "a b",
\* "A b" and "b a"
ProductNames ==
    { << "a" >>, << "A" >>, << "b" >>, << "a", "b" >>, << "a", " ", "b" >>,
      << "A", " ", "b" >>, << "b", " ", "a" >> }

\* The entries of the reference tables: each has the slug of its name, which
\* is not empty, as parseSpecFile leaves them
MatchEntries == {EntryWith(n, <<>>) : n \in ProductNames}

FileAlphabet == {"a", "B", " ", "."}

MatchInit ==
    /\ pc = "call"
    /\ \E len \in 0..MaxFileLen, n \in 0..MaxSpecs :
          \E f \in [1..len -> FileAlphabet], s \in [1..n -> MatchEntries] :
              args = [fileName |-> f, specs |-> s]
    /\ ret = <<>>
    /\ NoApp

MatchCall ==
    /\ pc = "call"
    /\ ret' = findAllMatchingSpecs(args.fileName, args.specs)
    /\ pc' = "done"
    /\ UNCHANGED args
    /\ UNCHANGED appVars

MatchNext == MatchCall

MatchSpec == MatchInit /\ [][MatchNext]_vars

\* ---- Claims about findAllMatchingSpecs ----

\* sub is a contiguous substring of s
IsSubstring(sub, s) ==
    \E i \in 1..(Len(s) + 1) : \E j \in (i - 1)..Len(s) : SubSeq(s, i, j) = sub

\* The slug of a file name without its extension
FileSlugOf(fileName) == toSlug(JSString(StripExtension(fileName)))

\* "scatter-rug-24in.jpg"
ScatterRugFile ==
    << "s", "c", "a", "t", "t", "e", "r", "-", "r", "u", "g", "-", "2", "4", "i", "n",
       ".", "j", "p", "g" >>

\* "round-side-table-24in.jpg"
RoundSideTableFile ==
    << "r", "o", "u", "n", "d", "-", "s", "i", "d", "e", "-", "t", "a", "b", "l", "e",
       "-", "2", "4", "i", "n", ".", "j", "p", "g" >>

\* The entries named "Cat", "Side Table" and "Round Side Table"
CatEntry == EntryWith(<< "C", "a", "t" >>, <<>>)
SideTableEntry == EntryWith(<< "S", "i", "d", "e", " ", "T", "a", "b", "l", "e" >>, <<>>)
RoundSideTableEntry ==
    EntryWith(<< "R", "o", "u", "n", "d", " ", "S", "i", "d", "e", " ", "T", "a", "b", "l", "e" >>,
              <<>>)

\* "scatter-rug-24in.jpg" against the entry "Cat" returns it
CatInScatter == findAllMatchingSpecs(ScatterRugFile, << CatEntry >>) = << CatEntry >>

\* "round-side-table-24in.jpg" against [Side Table, Round Side Table] returns
\* [Round Side Table, Side Table]
RoundBeforeSide ==
    findAllMatchingSpecs(RoundSideTableFile, << SideTableEntry, RoundSideTableEntry >>)
        = << RoundSideTableEntry, SideTableEntry >>

\* C4: findAllMatchingSpecs returns the candidates and nothing else: as a
\* multiset, the entries of the table whose slug is not empty and is a
\* contiguous substring of the slug of the file name without its extension;
\* nothing when the file slug is empty. The test is plain containment: "cat"
\* is a candidate for "scatter-rug-24in".
C4_ExactlyCandidates ==
    /\ CatInScatter
    /\ pc = "done" =>
          /\ \A e \in Range(args.specs) \cup Range(ret) :
                Count(ret, e) =
                    IF e.productSlug # <<>> /\ IsSubstring(e.productSlug, FileSlugOf(args.fileName))
                    THEN Count(args.specs, e)
                    ELSE 0
          /\ FileSlugOf(args.fileName) = <<>> => ret = <<>>

\* "aB.a" against the entries "b" and "b a": "b", found inside the word "ab",
\* is returned and "b a" is not
C4_Witness ==
    /\ pc = "done"
    /\ args.fileName = << "a", "B", ".", "a" >>
    /\ args.specs = << EntryWith(<< "b" >>, <<>>), EntryWith(<< "b", " ", "a" >>, <<>>) >>
    /\ ret = << EntryWith(<< "b" >>, <<>>) >>

\* C5: the result is ordered by descending slug length, ties by ascending
\* product name (in the collation order of localeCompare); so of two results
\* one of whose slugs strictly contains the other's, the longer comes first
\* ("round-side-table-24in.jpg" against [side-table, round-side-table] gives
\* [round-side-table, side-table]).
C5_RankedBySpecificity ==
    /\ RoundBeforeSide
    /\ pc = "done" =>
          /\ \A i \in 1..(Len(ret) - 1) :
                \/ Len(ret[i].productSlug) > Len(ret[i + 1].productSlug)
                \/ /\ Len(ret[i].productSlug) = Len(ret[i + 1].productSlug)
                   /\ localeCompare(ret[i].productName, ret[i + 1].productName) <= 0
          /\ \A i, j \in 1..Len(ret) :
                (/\ IsSubstring(ret[j].productSlug, ret[i].productSlug)
                 /\ Len(ret[i].productSlug) > Len(ret[j].productSlug)) => i < j

\* "a B" against the entries "a" and "a b": both match and the longer slug,
\* second in the table, comes first
C5_Witness ==
    /\ pc = "done"
    /\ args.fileName = << "a", " ", "B" >>
    /\ args.specs = << EntryWith(<< "a" >>, <<>>), EntryWith(<< "a", " ", "b" >>, <<>>) >>
    /\ ret = << EntryWith(<< "a", " ", "b" >>, <<>>), EntryWith(<< "a" >>, <<>>) >>

\* ------------------------------------------------------------------------
\* Specification of the calls of parseSpecFile
\* ------------------------------------------------------------------------

MaxRows == 2

\* Header cells
hProductName == << "P", "r", "o", "d", "u", "c", "t", " ", "N", "a", "m", "e" >>
hProduct == << "P", "r", "o", "d", "u", "c", "t" >>
hName == << "N", "a", "m", "e" >>
hLowerName == << "n", "a", "m", "e" >>
hItemName == << "I", "t", "e", "m", " ", "N", "a", "m", "e" >>
hModel == << "M", "o", "d", "e", "l" >>
hSize == << "S", "i", "z", "e" >>
hWidth == << "W", "i", "d", "t", "h" >>
hH == << "H" >>
hD == << "D" >>

\* The header rows of the worksheets
HeaderRows ==
    { << hProductName, hH >>, << hH, hLowerName >>, << hName, hProduct >>,
      << hWidth, hH >>, << hSize, hItemName >>, << hModel, hD >>,
      << hName, hWidth >>, << hName, hName >> }

\* The cells of the worksheets: blank, the text "A b", the number 24.5 and
\* the text "30x-5 .5 2000"
Cells ==
    { JSUndefined,
      JSString(<< "A", " ", "b" >>),
      JSNumber(Dec(24, 5)),
      JSString(<< "3", "0", "x", "-", "5", " ", ".", "5", " ", "2", "0", "0", "0" >>) }

\* The column letters of a configuration within the sheet, or empty
ConfigLetters == { <<>>, << "A" >>, << "B" >> }

\* The configurations: none, every pair of letters, and two ranges that
\* reach past the last column
Configs ==
    {NoConfig} \cup {Config(s, e) : s \in ConfigLetters, e \in ConfigLetters}
        \cup {Config(<< "A" >>, << "C" >>), Config(<< "C" >>, << "A" >>)}

ParseInit ==
    /\ pc = "call"
    /\ \E h \in HeaderRows, c \in Configs, rows \in 0..MaxRows :
          \E g \in [1..rows -> [1..Len(h) -> Cells]] :
              args = [headers |-> h, grid |-> g, config |-> c]
    /\ ret = <<>>
    /\ NoApp

ParseCall ==
    /\ pc = "call"
    /\ ret' = parseSpecFile(args.headers, args.grid, args.config)
    /\ pc' = "done"
    /\ UNCHANGED args
    /\ UNCHANGED appVars

ParseNext == ParseCall

ParseSpec == ParseInit /\ [][ParseNext]_vars

\* ---- Claims about parseSpecFile ----

\* Both letters are given and the start column lies after the end column
IsInverted(config) ==
    /\ config.present /\ config.startCol # <<>> /\ config.endCol # <<>>
    /\ BijectiveBase26(config.startCol) > BijectiveBase26(config.endCol)

\* The start letters, the end letters or both are empty
IsEmptyRange(config) ==
    config.present /\ (config.startCol = <<>> \/ config.endCol = <<>>)

NoDimensions(table) == \A i \in 1..Len(table) : table[i].expectedDimensions = <<>>

\* The range that spans the columns of the headers, A to the last one
FullRange(headers) ==
    Config(<< "A" >>, << UpperLetters[Len(headers)] >>)

SkuCell == JSString(<< "S", "K", "U", "-", "2", "0", "2", "4", "0", "5", "0", "1" >>)

\* A sheet whose column H holds "SKU-20240501", read with the heuristic and
\* with the range B to B, gives one entry with no expected dimension
SkuGivesNothing ==
    /\ LET table == parseSpecFile(<< hProductName, hH >>,
                                  << << JSString(<< "A", " ", "b" >>), SkuCell >> >>, NoConfig)
       IN Len(table) = 1 /\ table[1].expectedDimensions = <<>>
    /\ LET table == parseSpecFile(<< hProductName, hH >>,
                                  << << JSString(<< "A", " ", "b" >>), SkuCell >> >>,
                                  Config(<< "B" >>, << "B" >>))
       IN Len(table) = 1 /\ table[1].expectedDimensions = <<>>

\* C10: the expectedDimensions of every entry of every table are ascending
\* and each lies strictly between 0 and 2000; a cell "SKU-20240501" in an
\* eligible column contributes nothing.
C10_DimensionsSortedInRange ==
    /\ SkuGivesNothing
    /\ pc = "done" =>
          \A i \in 1..Len(ret) :
              /\ IsAscending(ret[i].expectedDimensions)
              /\ \A k \in 1..Len(ret[i].expectedDimensions) :
                    /\ ret[i].expectedDimensions[k] > 0
                    /\ ret[i].expectedDimensions[k] < 2000 * Scale

\* The cell "30x-5 .5 2000" in a scanned column gives 0.5 and 30, in that
\* order: -5 and 2000 are left out
C10_Witness ==
    /\ pc = "done"
    /\ args.config = NoConfig
    /\ args.headers = << hProductName, hH >>
    /\ args.grid = << << JSString(<< "A", " ", "b" >>), JSString(<< "3", "0", "x", "-", "5", " ", ".", "5", " ", "2", "0", "0", "0" >>) >> >>
    /\ Len(ret) = 1
    /\ ret[1].expectedDimensions = << Dec(0, 5), Dec(30, 0) >>

\* The k-th element of the set K of numbers, lowest first
NthOf(K, k) == CHOOSE r \in K : Cardinality({q \in K : q < r}) = k - 1

\* Both letters are given and the start column is not after the end column
IsOrderedRange(config) ==
    /\ config.present /\ config.startCol # <<>> /\ config.endCol # <<>>
    /\ colLetterToIndex(config.startCol) <= colLetterToIndex(config.endCol)

RECURSIVE NumbersOfColumns(_, _, _, _)
\* The numbers between 0 and 2000 of the cells of a row, from column c on,
\* of the columns whose index (from 0) lies between start and end
NumbersOfColumns(cells, c, start, end) ==
    IF c > Len(cells) THEN <<>>
    ELSE (IF start <= c - 1 /\ c - 1 <= end
          THEN KeepInRange(extractNumbers(cells[c])) ELSE <<>>)
            \o NumbersOfColumns(cells, c + 1, start, end)

\* The range from the same start to the last column of the headers
ClippedRange(config, headers) == Config(config.startCol, << UpperLetters[Len(headers)] >>)

\* C18: with a column range whose start is not after its end, the
\* expectedDimensions of every entry are the numbers of the cells of its
\* row in the columns whose position in the header row lies within the
\* range, metadata-named columns included and every other column excluded;
\* a range that reaches past the last column gives the table of the range
\* clipped to the sheet.
C18_RangeByPosition ==
    (pc = "done" /\ IsOrderedRange(args.config)) =>
        LET start == colLetterToIndex(args.config.startCol)
            end == colLetterToIndex(args.config.endCol)
        IN /\ \A k \in 1..Len(ret) :
                 \E r \in 1..Len(args.grid) :
                     /\ ret[k].originalRow = RowObject(args.headers, args.grid[r])
                     /\ ret[k].expectedDimensions
                            = SortNumbers(NumbersOfColumns(args.grid[r], 1, start, end))
           /\ end >= Len(args.headers) - 1
                 => ret = parseSpecFile(args.headers, args.grid,
                                        ClippedRange(args.config, args.headers))

\* No two columns have the same header cell
DistinctHeaders(headers) ==
    \A b, c \in 1..Len(headers) : headers[b] = headers[c] => b = c

\* Two columns headed "Name", the range B to B and the row [24.5, "A b"]:
\* the entry holds 24.5, the number of column A, and nothing of column B
C18_DuplicateHeaders ==
    /\ pc = "done"
    /\ args.headers = << hName, hName >>
    /\ args.config = Config(<< "B" >>, << "B" >>)
    /\ args.grid = << << JSNumber(Dec(24, 5)), JSString(<< "A", " ", "b" >>) >> >>
    /\ Len(ret) = 1
    /\ ret[1].expectedDimensions = << Dec(24, 5) >>

\* The header cell includes one of the substrings product, name, size, id,
\* model, row, sku, whatever the case of its letters
NamesMetadata(header) ==
    \E w \in {wProduct, wName, wSize, wId, wModel, wRow, wSku} :
        IsSubstring(w, toLowerCase(header))

RECURSIVE NumbersOfPlainColumns(_, _, _)
\* The numbers between 0 and 2000 of the cells of a row, from column c on,
\* of the columns whose header cell does not name metadata
NumbersOfPlainColumns(headers, cells, c) ==
    IF c > Len(cells) THEN <<>>
    ELSE (IF ~NamesMetadata(headers[c])
          THEN KeepInRange(extractNumbers(cells[c])) ELSE <<>>)
            \o NumbersOfPlainColumns(headers, cells, c + 1)

\* C19: without a column range (no configuration, or one without start
\* letters) the expectedDimensions of every entry are the numbers of the
\* cells of its row in the columns whose header, lower-cased, includes none
\* of product, name, size, id, model, row, sku: a column such as "Width",
\* which includes "id", gives no number.
C19_HeuristicColumns ==
    (pc = "done" /\ (~args.config.present \/ args.config.startCol = <<>>)) =>
        \A k \in 1..Len(ret) :
            \E r \in 1..Len(args.grid) :
                /\ ret[k].originalRow = RowObject(args.headers, args.grid[r])
                /\ ret[k].expectedDimensions
                       = SortNumbers(NumbersOfPlainColumns(args.headers, args.grid[r], 1))

\* The columns "Name" and "Width", no range, the row ["A b", 24.5]: the
\* entry has no expected dimension
C19_Witness ==
    /\ pc = "done"
    /\ args.config = NoConfig
    /\ args.headers = << hName, hWidth >>
    /\ args.grid = << << JSString(<< "A", " ", "b" >>), JSNumber(Dec(24, 5)) >> >>
    /\ Len(ret) = 1
    /\ ret[1].productName = << "A", " ", "b" >>
    /\ ret[1].expectedDimensions = <<>>

\* The patterns that match a cell of the header row, trimmed
MatchingPatterns(headers) ==
    {p \in 1..Len(productNamePatterns) :
        \E c \in 1..Len(headers) : TestPattern(productNamePatterns[p], Trim(headers[c]))}

\* The column of the first header cell that matches the first pattern that
\* matches a header cell
NameColumn(headers) ==
    LET p == CHOOSE q \in MatchingPatterns(headers) :
                 \A o \in MatchingPatterns(headers) : q <= o
        hits == {c \in 1..Len(headers) : TestPattern(productNamePatterns[p], Trim(headers[c]))}
    IN CHOOSE c \in hits : \A b \in hits : c <= b

\* The name of a row of cells in the column c
NameInColumn(cells, c) == Trim(StringOf(OrEmpty(cells[c])))

\* The rows of cells that have a name and a slug in the column c
NamedRows(grid, c) ==
    {r \in 1..Len(grid) :
        /\ NameInColumn(grid[r], c) # <<>>
        /\ toSlug(JSString(NameInColumn(grid[r], c))) # <<>>}

\* C20: the product-name column is the column of a header that matches the
\* first of the patterns that matches any header of the sheet, wherever
\* the columns stand, and it is the column of every row: the entries of
\* the table are the rows that have a name in that column, with that name.
C20_NameColumnByPriority ==
    (pc = "done" /\ MatchingPatterns(args.headers) # {}) =>
        LET c == NameColumn(args.headers)
            K == NamedRows(args.grid, c)
        IN /\ Len(ret) = Cardinality(K)
           /\ \A k \in 1..Len(ret) :
                 /\ ret[k].originalRow = RowObject(args.headers, args.grid[NthOf(K, k)])
                 /\ ret[k].productName = NameInColumn(args.grid[NthOf(K, k)], c)

\* The columns "Name" and "Product": the first row has "A b" under Name
\* and nothing under Product, the second nothing under Name and "A b"
\* under Product. The table holds the first row, named after its cell
\* under Name, and not the second
C20_FirstRowDecides ==
    /\ pc = "done"
    /\ args.headers = << hName, hProduct >>
    /\ args.grid = << << JSString(<< "A", " ", "b" >>), JSUndefined >>,
                      << JSUndefined, JSString(<< "A", " ", "b" >>) >> >>
    /\ Len(ret) = 1
    /\ ret[1].originalRow = << [key |-> hName, value |-> JSString(<< "A", " ", "b" >>)] >>
    /\ ret[1].productName = << "A", " ", "b" >>

\* C21: when no header of the sheet matches a product-name pattern, the
\* builder reads the names under the literal key "Product Name", which no
\* row has: every row is dropped and the table is empty, whatever the rows
\* and whatever keys each of them carries.
C21_NoNameColumnEmptyTable ==
    (pc = "done" /\ MatchingPatterns(args.headers) = {}) => ret = <<>>

\* The columns "Width" and "H": the first row has a cell under Width only,
\* the second under H only, and the table is empty
C21_Witness ==
    /\ pc = "done"
    /\ args.headers = << hWidth, hH >>
    /\ args.grid = << << JSNumber(Dec(24, 5)), JSUndefined >>,
                      << JSUndefined, JSString(<< "A", " ", "b" >>) >> >>
    /\ ret = <<>>

\* ------------------------------------------------------------------------
\* Specification of the calls of parseSpecFile on sheets of names
\* ------------------------------------------------------------------------

MaxNameRows == 3

\* The header rows: the name column first, or last
NameHeaderRows == { << hProductName, hH >>, << hH, hLowerName >> }

\* The cells of the name column: blank, " ", " - ", "A b" and "7"
NameCells ==
    { JSUndefined,
      JSString(<< " " >>),
      JSString(<< " ", "-", " " >>),
      JSString(<< "A", " ", "b" >>),
      JSString(<< "7" >>) }

\* The cells of the column H: blank, or the number 24.5
DimensionCells == { JSUndefined, JSNumber(Dec(24, 5)) }

NameConfigs == { NoConfig, Config(<< "A" >>, << "B" >>) }

RowsInit ==
    /\ pc = "call"
    /\ \E h \in NameHeaderRows, c \in NameConfigs, rows \in 0..MaxNameRows :
          \E names \in [1..rows -> NameCells], dims \in [1..rows -> DimensionCells] :
              args = [headers |-> h,
                      grid |-> [r \in 1..rows |->
                                   IF h[1] = hH THEN << dims[r], names[r] >>
                                   ELSE << names[r], dims[r] >>],
                      config |-> c]
    /\ ret = <<>>
    /\ NoApp

RowsCall ==
    /\ pc = "call"
    /\ ret' = parseSpecFile(args.headers, args.grid, args.config)
    /\ pc' = "done"
    /\ UNCHANGED args
    /\ UNCHANGED appVars

RowsNext == RowsCall

RowsSpec == RowsInit /\ [][RowsNext]_vars

\* ---- Claims about the rows of the table ----

\* The name the builder reads in a row: the trimmed text of the cell under
\* the key of the name column
NameOfRow(row, key) == Trim(StringOf(OrEmpty(RowGet(row, key))))

\* The rows that have a name and a slug, lowest first
KeptRows(rows, key) ==
    {r \in 1..Len(rows) :
        /\ NameOfRow(rows[r], key) # <<>>
        /\ toSlug(JSString(NameOfRow(rows[r], key))) # <<>>}

Null == [t |-> "null"]

\* A promise that has not settled, one that resolved and one that rejected
Pending == [state |-> "pending"]
Resolved(value) == [state |-> "resolved", value |-> value]
Rejected(reason) == [state |-> "rejected", reason |-> reason]

\* An array held in a field that may also be undefined
ArrayOf(items) == [t |-> "object", items |-> items]

\* new Error(message)
ErrorOf(message) == [name |-> "Error", message |-> message]

\* The event a FileReader hands to onerror: it has no message
ReaderErrorEvent == [type |-> "error"]

\* err.message
MessageOf(err) == IF "message" \in DOMAIN err THEN err.message ELSE JSUndefined

\* a || b for two strings
OrString(a, b) == IF Falsy(a) THEN b ELSE a

MsgSkipped == JSString(<< "S", "k", "i", "p", "p", "e", "d", ":", " ", "N", "o", " ", "m", "a", "t", "c", "h", "i", "n", "g", " ", "S", "p", "e", "c", " ", "R", "o", "w", " ", "f", "o", "u", "n", "d" >>)
MsgNoResponse == JSString(<< "N", "o", " ", "r", "e", "s", "p", "o", "n", "s", "e", " ", "f", "r", "o", "m", " ", "G", "e", "m", "i", "n", "i", "." >>)
MsgErrorAnalyzing == JSString(<< "E", "r", "r", "o", "r", " ", "a", "n", "a", "l", "y", "z", "i", "n", "g", " ", "c", "o", "n", "t", "e", "n", "t", "." >>)
MsgUnknownError == JSString(<< "U", "n", "k", "n", "o", "w", "n", " ", "e", "r", "r", "o", "r", " ", "o", "c", "c", "u", "r", "r", "e", "d", " ", "d", "u", "r", "i", "n", "g", " ", "e", "x", "t", "r", "a", "c", "t", "i", "o", "n" >>)

\* The object analyzeContent resolves with (the fields the engine reads)
GeminiResponse(dimensions) == [dimensions |-> dimensions]

\* The literal of the single path for a file without a matching entry
NoMatchResult == [status |-> "NO_MATCH", matches |-> <<>>, missing |-> <<>>, extra |-> <<>>]

\* The state of the single analysis before any image is submitted
AnalysisIdle ==
    [isLoading |-> FALSE, result |-> Null, error |-> Null, validation |-> JSUndefined]

\* The state handleAnalysis sets before it calls analyzeContent
AnalysisLoading ==
    [isLoading |-> TRUE, result |-> Null, error |-> Null, validation |-> JSUndefined]

\* A validation that is NO_MATCH whenever no entry is found, a table loaded
\* or not
ValidationOfAnalysisAlways(geminiResult, data, specs) ==
    LET match == IF Falsy(data.fileName) THEN <<>>
                 ELSE findMatchingSpec(data.fileName.s, specs)
    IN IF match # <<>> THEN validateDimensions(geminiResult.dimensions, match[1])
       ELSE NoMatchResult

\* The validation of the single path, once analyzeContent has resolved
ValidationOfAnalysis(geminiResult, data, specs) ==
    IF Len(specs) > 0 /\ ~Falsy(data.fileName)
    THEN LET match == findMatchingSpec(data.fileName.s, specs) IN
         IF match # <<>> THEN validateDimensions(geminiResult.dimensions, match[1])
         ELSE NoMatchResult
    ELSE JSUndefined

\* The state handleAnalysis sets when analyzeContent has resolved
AnalysisSucceeded(geminiResult, data, specs) ==
    [isLoading |-> FALSE, result |-> geminiResult, error |-> Null,
     validation |-> ValidationOfAnalysis(geminiResult, data, specs)]

\* The state handleAnalysis sets in its catch block
AnalysisFailed(error) ==
    [isLoading |-> FALSE, result |-> Null,
     error |-> OrString(MessageOf(error), MsgUnknownError), validation |-> JSUndefined]

\* A matcher that takes every entry of the table for a match
MatchAtSelectionAll(fileName, specs) == specs

\* matchedSpecs of a new batch item
MatchAtSelection(fileName, specs) ==
    IF Len(specs) > 0 THEN findAllMatchingSpecs(fileName, specs) ELSE <<>>

\* A batch item as handleBatchSelection makes it
NewItem(fileName, specs) ==
    [file |-> [name |-> fileName],
     status |-> "PENDING",
     matchedSpecs |-> MatchAtSelection(fileName, specs),
     aiResponse |-> JSUndefined,
     validations |-> JSUndefined,
     error |-> JSUndefined]

\* The batch state before any batch is selected
BatchIdle == [items |-> <<>>, isProcessing |-> FALSE, progress |-> 0, total |-> 0]

\* setBatchState(prev => ({ ...prev, items: [...items], progress: i + 1 }))
SetProgress(prev, items, i) == [prev EXCEPT !.items = items, !.progress = i + 1]

\* A test that lets every item through to the extraction
HasNoMatchNever(item) == FALSE

\* items[i].matchedSpecs.length === 0
HasNoMatch(item) == Len(item.matchedSpecs) = 0

RECURSIVE RunLoop(_, _, _, _)
\* The for loop of processBatch from the item at index i (counted from 0)
\* up to its next await: the items already COMPLETED or SKIPPED are passed,
\* the items without a match are marked SKIPPED, and the first other item
\* is marked PROCESSING and its file read is started; when no item is left
\* isProcessing is reset
RunLoop(h, items, i, bs) ==
    IF i >= Len(items)
    THEN [heap |-> h, batchState |-> [bs EXCEPT !.isProcessing = FALSE], i |-> i, pc |-> "done"]
    ELSE LET r == items[i + 1] IN
         IF h[r].status = "COMPLETED" \/ h[r].status = "SKIPPED"
         THEN RunLoop(h, items, i + 1, bs)
         ELSE IF HasNoMatch(h[r])
         THEN RunLoop([h EXCEPT ![r].status = "SKIPPED", ![r].error = MsgSkipped],
                      items, i + 1, SetProgress(bs, items, i))
         ELSE [heap |-> [h EXCEPT ![r].status = "PROCESSING"],
               batchState |-> [bs EXCEPT !.items = items],
               i |-> i, pc |-> "readAsDataURL"]

\* A catch block that gives up every item from the failed one on
MarkErrorFromHere(h, items, i, err) ==
    [r \in 1..Len(h) |->
        IF \E j \in (i + 1)..Len(items) : items[j] = r
        THEN [h[r] EXCEPT !.status = "ERROR", !.error = MessageOf(err)]
        ELSE h[r]]

\* The catch block of processBatch for the item at index i
MarkError(h, items, i, err) ==
    [h EXCEPT ![items[i + 1]].status = "ERROR", ![items[i + 1]].error = MessageOf(err)]

\* An end of the try block that validates the best match only
MarkCompletedBestMatch(h, items, i, aiResult) ==
    LET r == items[i + 1] IN
    [h EXCEPT ![r].aiResponse = aiResult,
              ![r].validations = ArrayOf(<< validateDimensions(aiResult.dimensions,
                                                               h[r].matchedSpecs[1]) >>),
              ![r].status = "COMPLETED"]

\* The end of the try block of processBatch for the item at index i
MarkCompleted(h, items, i, aiResult) ==
    LET r == items[i + 1] IN
    [h EXCEPT ![r].aiResponse = aiResult,
              ![r].validations = ArrayOf([k \in 1..Len(h[r].matchedSpecs) |->
                                             validateDimensions(aiResult.dimensions,
                                                                h[r].matchedSpecs[k])]),
              ![r].status = "COMPLETED"]

\* The Start button of the batch view is shown
StartShown ==
    /\ isBatchMode
    /\ ~batchState.isProcessing
    /\ ~(batchState.progress = batchState.total /\ batchState.total > 0)

\* The activations of handleAnalysis so far
AnalysisTasks == {k \in 1..Len(tasks) : tasks[k].kind = "handleAnalysis"}

\* ------------------------------------------------------------------------
\* Specification of a session of the App component: a reference table is
\* loaded, images are submitted one by one and a batch is selected and run
\* ------------------------------------------------------------------------

MaxFiles == 2

\* The loaded reference table: the entries "a" and "a b"
AppTable ==
    << EntryWith(<< "a" >>, << Dec(12, 0), Dec(24, 0) >>),
       EntryWith(<< "a", " ", "b" >>, << Dec(24, 0) >>) >>

\* No table is loaded, or the table is
AppTables == { <<>>, AppTable }

\* The reference file the loaded table was parsed from
AppSpecFile == [name |-> << "s", ".", "x" >>]

\* useState<ValidationConfig>({ startCol: 'G', endCol: 'M' })
DefaultSpecConfig == Config(<< "G" >>, << "M" >>)

\* The names of the image files: "a.j" matches the entry "a", "a b" matches
\* both entries, "B" matches none
AppFileNames == { << "a", ".", "j" >>, << "a", " ", "b" >>, << "B" >> }

\* What the extraction returns: 24.1 and 12, or 30
Detections == { << Dec(24, 1), Dec(12, 0) >>, << Dec(30, 0) >> }

\* What analyzeContent throws
ExtractionErrors == { ErrorOf(MsgNoResponse), ErrorOf(MsgErrorAnalyzing) }

\* The input of a single analysis: FileUpload passes the name of the file;
\* the type allows the name to be absent
AnalysisInputs == {[fileName |-> JSString(f)] : f \in AppFileNames} \cup {[fileName |-> JSUndefined]}

AppInit ==
    /\ pc = "app"
    /\ args = <<>>
    /\ ret = <<>>
    /\ specsState \in AppTables
    /\ currentSpecFile = (IF specsState = <<>> THEN Null ELSE AppSpecFile)
    /\ specConfig = DefaultSpecConfig
    /\ analysis = AnalysisIdle
    /\ isBatchMode = FALSE
    /\ batchState = BatchIdle
    /\ heap = <<>>
    /\ tasks = <<>>
    /\ calls = <<>>

\* The call that the task k of the kind op starts for the item r
NewCall(op, k, r, fileName) ==
    [op |-> op, task |-> k, item |-> r, fileName |-> fileName, outcome |-> Pending]

\* handleAnalysis(data) up to its await: FileUpload is shown in the single
\* view only
handleAnalysis(data) ==
    /\ ~isBatchMode
    /\ isBatchMode' = FALSE
    /\ analysis' = AnalysisLoading
    /\ calls' = Append(calls, NewCall("analyzeContent", Len(tasks) + 1, 0, data.fileName))
    /\ tasks' = Append(tasks, [kind |-> "handleAnalysis", pc |-> "analyzeContent",
                               data |-> data, specs |-> specsState,
                               call |-> Len(calls) + 1, wrote |-> AnalysisLoading])
    /\ UNCHANGED <<currentSpecFile, specConfig, specsState, batchState, heap>>
    /\ UNCHANGED callVars

\* analyzeContent resolves for the activation k of handleAnalysis
handleAnalysisResolved(k, geminiResult) ==
    /\ tasks[k].kind = "handleAnalysis"
    /\ tasks[k].pc = "analyzeContent"
    /\ analysis' = AnalysisSucceeded(geminiResult, tasks[k].data, tasks[k].specs)
    /\ calls' = [calls EXCEPT ![tasks[k].call].outcome = Resolved(geminiResult)]
    /\ tasks' = [tasks EXCEPT ![k].pc = "done", ![k].wrote = analysis']
    /\ UNCHANGED <<currentSpecFile, specConfig, specsState, isBatchMode, batchState, heap>>
    /\ UNCHANGED callVars

\* analyzeContent rejects for the activation k of handleAnalysis
handleAnalysisRejected(k, error) ==
    /\ tasks[k].kind = "handleAnalysis"
    /\ tasks[k].pc = "analyzeContent"
    /\ analysis' = AnalysisFailed(error)
    /\ calls' = [calls EXCEPT ![tasks[k].call].outcome = Rejected(error)]
    /\ tasks' = [tasks EXCEPT ![k].pc = "done", ![k].wrote = analysis']
    /\ UNCHANGED <<currentSpecFile, specConfig, specsState, isBatchMode, batchState, heap>>
    /\ UNCHANGED callVars

\* handleBatchSelection(files): FileUpload hands over the images of a
\* folder that holds at least one
handleBatchSelection(files) ==
    /\ ~isBatchMode
    /\ Len(files) > 0
    /\ isBatchMode' = TRUE
    /\ heap' = heap \o [index \in 1..Len(files) |-> NewItem(files[index], specsState)]
    /\ batchState' = [items |-> [index \in 1..Len(files) |-> Len(heap) + index],
                      isProcessing |-> FALSE,
                      progress |-> 0,
                      total |-> Len(files)]
    /\ UNCHANGED <<currentSpecFile, specConfig, specsState, analysis, tasks, calls>>
    /\ UNCHANGED callVars

\* The button "Back to Single View"
backToSingleView ==
    /\ isBatchMode
    /\ isBatchMode' = FALSE
    /\ UNCHANGED <<currentSpecFile, specConfig, specsState, analysis, batchState, heap, tasks, calls>>
    /\ UNCHANGED callVars

\* The calls once the loop of the task k has run to the state run: a file
\* read is started when the loop stopped at an item
CallsAfterLoop(cs, k, items, run) ==
    IF run.pc = "readAsDataURL"
    THEN Append(cs, NewCall("readAsDataURL", k, items[run.i + 1],
                            JSString(run.heap[items[run.i + 1]].file.name)))
    ELSE cs

\* processBatch, from the click on Start up to its first await
processBatch ==
    /\ StartShown
    /\ ~batchState.isProcessing
    /\ LET items == batchState.items
           run == RunLoop(heap, items, 0, [batchState EXCEPT !.isProcessing = TRUE])
           cs == CallsAfterLoop(calls, Len(tasks) + 1, items, run)
       IN /\ heap' = run.heap
          /\ batchState' = run.batchState
          /\ calls' = cs
          /\ tasks' = Append(tasks, [kind |-> "processBatch", pc |-> run.pc,
                                     items |-> items, i |-> run.i, call |-> Len(cs)])
    /\ UNCHANGED <<currentSpecFile, specConfig, specsState, analysis, isBatchMode>>
    /\ UNCHANGED callVars

\* The file of the item at hand is read: analyzeContent is called
processBatchReadResolved(k) ==
    /\ tasks[k].kind = "processBatch"
    /\ tasks[k].pc = "readAsDataURL"
    /\ LET r == tasks[k].items[tasks[k].i + 1]
           cs == [calls EXCEPT ![tasks[k].call].outcome = Resolved(JSString(<< "b", "a", "s", "e", "6", "4" >>))]
       IN /\ calls' = Append(cs, NewCall("analyzeContent", k, r, JSString(heap[r].file.name)))
          /\ tasks' = [tasks EXCEPT ![k].pc = "analyzeContent", ![k].call = Len(cs) + 1]
    /\ UNCHANGED <<currentSpecFile, specConfig, specsState, analysis, isBatchMode, batchState, heap>>
    /\ UNCHANGED callVars

\* The file of the item at hand cannot be read: the catch block, the
\* progress, then the delay
processBatchReadRejected(k) ==
    /\ tasks[k].kind = "processBatch"
    /\ tasks[k].pc = "readAsDataURL"
    /\ calls' = [calls EXCEPT ![tasks[k].call].outcome = Rejected(ReaderErrorEvent)]
    /\ heap' = MarkError(heap, tasks[k].items, tasks[k].i, ReaderErrorEvent)
    /\ batchState' = SetProgress(batchState, tasks[k].items, tasks[k].i)
    /\ tasks' = [tasks EXCEPT ![k].pc = "setTimeout"]
    /\ UNCHANGED <<currentSpecFile, specConfig, specsState, analysis, isBatchMode>>
    /\ UNCHANGED callVars

\* analyzeContent resolves for the item at hand: it is validated against
\* each of its matches
processBatchExtractResolved(k, aiResult) ==
    /\ tasks[k].kind = "processBatch"
    /\ tasks[k].pc = "analyzeContent"
    /\ calls' = [calls EXCEPT ![tasks[k].call].outcome = Resolved(aiResult)]
    /\ heap' = MarkCompleted(heap, tasks[k].items, tasks[k].i, aiResult)
    /\ batchState' = SetProgress(batchState, tasks[k].items, tasks[k].i)
    /\ tasks' = [tasks EXCEPT ![k].pc = "setTimeout"]
    /\ UNCHANGED <<currentSpecFile, specConfig, specsState, analysis, isBatchMode>>
    /\ UNCHANGED callVars

\* analyzeContent rejects for the item at hand
processBatchExtractRejected(k, err) ==
    /\ tasks[k].kind = "processBatch"
    /\ tasks[k].pc = "analyzeContent"
    /\ calls' = [calls EXCEPT ![tasks[k].call].outcome = Rejected(err)]
    /\ heap' = MarkError(heap, tasks[k].items, tasks[k].i, err)
    /\ batchState' = SetProgress(batchState, tasks[k].items, tasks[k].i)
    /\ tasks' = [tasks EXCEPT ![k].pc = "setTimeout"]
    /\ UNCHANGED <<currentSpecFile, specConfig, specsState, analysis, isBatchMode>>
    /\ UNCHANGED callVars

\* The delay is over: the loop goes on with the next item
processBatchDelayOver(k) ==
    /\ tasks[k].kind = "processBatch"
    /\ tasks[k].pc = "setTimeout"
    /\ LET items == tasks[k].items
           run == RunLoop(heap, items, tasks[k].i + 1, batchState)
           cs == CallsAfterLoop(calls, k, items, run)
       IN /\ heap' = run.heap
          /\ batchState' = run.batchState
          /\ calls' = cs
          /\ tasks' = [tasks EXCEPT ![k].pc = run.pc, ![k].i = run.i, ![k].call = Len(cs)]
    /\ UNCHANGED <<currentSpecFile, specConfig, specsState, analysis, isBatchMode>>
    /\ UNCHANGED callVars

\* One image is submitted and one batch is selected in the session
AppNext ==
    \/ \E data \in AnalysisInputs : AnalysisTasks = {} /\ handleAnalysis(data)
    \/ \E k \in 1..Len(tasks) : \E d \in Detections : handleAnalysisResolved(k, GeminiResponse(d))
    \/ \E k \in 1..Len(tasks) : \E err \in ExtractionErrors : handleAnalysisRejected(k, err)
    \/ \E n \in 1..MaxFiles : \E files \in [1..n -> AppFileNames] :
            heap = <<>> /\ handleBatchSelection(files)
    \/ backToSingleView
    \/ processBatch
    \/ \E k \in 1..Len(tasks) : processBatchReadResolved(k)
    \/ \E k \in 1..Len(tasks) : processBatchReadRejected(k)
    \/ \E k \in 1..Len(tasks) : \E d \in Detections : processBatchExtractResolved(k, GeminiResponse(d))
    \/ \E k \in 1..Len(tasks) : \E err \in ExtractionErrors : processBatchExtractRejected(k, err)
    \/ \E k \in 1..Len(tasks) : processBatchDelayOver(k)

AppSpec == AppInit /\ [][AppNext]_vars

\* ---- Claims about the session ----

\* The activations of processBatch so far
BatchTasks == {k \in 1..Len(tasks) : tasks[k].kind = "processBatch"}

\* The file reads and extraction calls issued for the item r
CallsOfItem(r) == {c \in 1..Len(calls) : calls[c].item = r}

\* The extraction calls issued so far
ExtractionCalls == {c \in 1..Len(calls) : calls[c].op = "analyzeContent"}

\* C12: a batch item without a matched entry is never PROCESSING and never
\* gets an aiResponse or validations, no file read and no extraction call
\* is issued for it, and the run marks it SKIPPED and goes on: once the run
\* is past the item, or over, the item is SKIPPED, and the run never waits
\* on such an item.
C12_NoMatchSkipped ==
    /\ \A r \in 1..Len(heap) :
          heap[r].matchedSpecs = <<>> =>
              /\ heap[r].status \in {"PENDING", "SKIPPED"}
              /\ heap[r].aiResponse = JSUndefined
              /\ heap[r].validations = JSUndefined
              /\ CallsOfItem(r) = {}
    /\ \A k \in BatchTasks :
          /\ \A j \in 1..Len(tasks[k].items) :
                (heap[tasks[k].items[j]].matchedSpecs = <<>>
                    /\ (j <= tasks[k].i \/ tasks[k].pc = "done"))
                  => heap[tasks[k].items[j]].status = "SKIPPED"
          /\ tasks[k].pc # "done" => heap[tasks[k].items[tasks[k].i + 1]].matchedSpecs # <<>>

\* A run over "B" and "a.j" is waiting for the extraction of "a.j": "B",
\* which matches nothing, is SKIPPED and no call was issued for it
C12_Witness ==
    /\ \E k \in BatchTasks :
          /\ tasks[k].pc = "analyzeContent"
          /\ tasks[k].i = 1
    /\ Len(heap) = 2
    /\ heap[1].file.name = << "B" >>
    /\ heap[1].status = "SKIPPED"
    /\ heap[1].error = MsgSkipped
    /\ heap[2].status = "PROCESSING"
    /\ batchState.progress = 1
    /\ CallsOfItem(1) = {}

\* The entries the Matcher finds, or would find, for the item of the call c
MatchesOfCall(c) ==
    IF calls[c].item # 0 THEN heap[calls[c].item].matchedSpecs
    ELSE IF Falsy(calls[c].fileName) THEN <<>>
    ELSE findAllMatchingSpecs(calls[c].fileName.s, tasks[calls[c].task].specs)

\* C13 as stated: on the single path and on the batch path alike, no
\* extraction call is ever issued for an item whose file name matches no
\* reference entry.
C13_MatcherBeforeEveryCall ==
    \A c \in ExtractionCalls : MatchesOfCall(c) # <<>>

\* C13 as amended: on the batch path the Matcher has run for every item
\* when the batch is selected, and an extraction call is issued only for
\* an item with at least one matched entry; on the single path the
\* extraction call is issued when the image is submitted, whatever the
\* Matcher would find, and nothing of the Matcher is in the analysis until
\* the call has returned.
C13_MatcherBeforeBatchCalls ==
    /\ \A r \in 1..Len(heap) :
          heap[r].matchedSpecs =
              IF Len(specsState) > 0
              THEN findAllMatchingSpecs(heap[r].file.name, specsState) ELSE <<>>
    /\ \A c \in ExtractionCalls : calls[c].item # 0 => MatchesOfCall(c) # <<>>
    /\ \A k \in AnalysisTasks :
          /\ calls[tasks[k].call].op = "analyzeContent"
          /\ calls[tasks[k].call].task = k
          /\ calls[tasks[k].call].fileName = tasks[k].data.fileName
          /\ tasks[k].pc = "analyzeContent" => tasks[k].wrote.validation = JSUndefined

\* The image "B" is submitted while the table is loaded: its extraction
\* call is in flight although no entry matches it
C13_Witness ==
    /\ specsState = AppTable
    /\ \E k \in AnalysisTasks :
          /\ tasks[k].pc = "analyzeContent"
          /\ tasks[k].data.fileName = JSString(<< "B" >>)
          /\ calls[tasks[k].call].outcome = Pending
          /\ MatchesOfCall(tasks[k].call) = <<>>

\* The file reads, and the extraction calls, issued for the item r
ReadsOfItem(r) == {c \in CallsOfItem(r) : calls[c].op = "readAsDataURL"}
ExtractionsOfItem(r) == {c \in CallsOfItem(r) : calls[c].op = "analyzeContent"}

\* The item r is ERROR with the message of what was thrown for it, and has
\* no validations
IsFailedWith(r, thrown) ==
    /\ heap[r].status = "ERROR"
    /\ heap[r].error = MessageOf(thrown)
    /\ heap[r].validations = JSUndefined

\* The item r is where its own file read and its own extraction call have
\* brought it, whatever happened to the other items
FollowsOwnOutcome(r) ==
    /\ Cardinality(ReadsOfItem(r)) <= 1
    /\ Cardinality(ExtractionsOfItem(r)) <= 1
    /\ \A c \in ReadsOfItem(r) :
          /\ calls[c].outcome.state = "pending" =>
                heap[r].status = "PROCESSING" /\ ExtractionsOfItem(r) = {}
          /\ calls[c].outcome.state = "rejected" =>
                IsFailedWith(r, calls[c].outcome.reason) /\ ExtractionsOfItem(r) = {}
          /\ calls[c].outcome.state = "resolved" => ExtractionsOfItem(r) # {}
    /\ \A c \in ExtractionsOfItem(r) :
          /\ calls[c].outcome.state = "pending" => heap[r].status = "PROCESSING"
          /\ calls[c].outcome.state = "rejected" => IsFailedWith(r, calls[c].outcome.reason)
          /\ calls[c].outcome.state = "resolved" =>
                /\ heap[r].status = "COMPLETED"
                /\ heap[r].aiResponse = calls[c].outcome.value
                /\ heap[r].validations =
                      ArrayOf([k \in 1..Len(heap[r].matchedSpecs) |->
                                  validateDimensions(calls[c].outcome.value.dimensions,
                                                     heap[r].matchedSpecs[k])])
    /\ ReadsOfItem(r) = {} => heap[r].status \in {"PENDING", "SKIPPED"}

EngineStatuses == {"PERFECT", "MISSING", "EXTRA", "MISMATCH"}

\* The activations of handleAnalysis whose extraction call has resolved
SucceededAnalyses ==
    {k \in AnalysisTasks :
        tasks[k].pc = "done" /\ calls[tasks[k].call].outcome.state = "resolved"}

\* C15 as stated: an item analyzed while no table is loaded, or while no
\* entry matches its file name, has the validation outcome NO_MATCH, with
\* no matched entry and empty lists: the analysis of the single path, and
\* the item of a batch.
C15_NoMatchAlways ==
    /\ \A k \in SucceededAnalyses :
          MatchesOfCall(tasks[k].call) = <<>> => tasks[k].wrote.validation = NoMatchResult
    /\ \A r \in 1..Len(heap) :
          (heap[r].matchedSpecs = <<>> /\ heap[r].status # "PENDING")
              => heap[r].validations = ArrayOf(<< NoMatchResult >>)

\* C15 as amended: on the single path, once the extraction has succeeded,
\* the validation is NO_MATCH (no matched entry, empty lists) when a table
\* is loaded, the image has a file name and no entry matches it; it is
\* absent when no table is loaded or the image has no file name, and when
\* the extraction fails; it is an outcome of validateDimensions against
\* the best match otherwise. A batch item without a match gets no
\* validations, and no validation of a batch item is NO_MATCH:
\* validateDimensions never gives that status.
C15_NoMatchOnSinglePath ==
    /\ \A k \in AnalysisTasks :
          tasks[k].pc = "done" =>
              LET v == tasks[k].wrote.validation
                  named == ~Falsy(tasks[k].data.fileName)
                  loaded == Len(tasks[k].specs) > 0
                  found == MatchesOfCall(tasks[k].call)
              IN IF k \notin SucceededAnalyses \/ ~loaded \/ ~named THEN v = JSUndefined
                 ELSE IF found = <<>> THEN v = NoMatchResult /\ "matchedRow" \notin DOMAIN v
                 ELSE v.status \in EngineStatuses /\ v.matchedRow = found[1]
    /\ \A r \in 1..Len(heap) :
          /\ heap[r].matchedSpecs = <<>> => heap[r].validations = JSUndefined
          /\ heap[r].validations # JSUndefined =>
                \A i \in 1..Len(heap[r].validations.items) :
                    heap[r].validations.items[i].status \in EngineStatuses

\* The image "B" was analyzed while the table was loaded: the extraction
\* succeeded and the validation is NO_MATCH
C15_Witness ==
    \E k \in SucceededAnalyses :
        /\ tasks[k].specs = AppTable
        /\ tasks[k].data.fileName = JSString(<< "B" >>)
        /\ analysis.validation = NoMatchResult
        /\ analysis.result # Null
        /\ ~analysis.isLoading

\* The extraction calls that the run k has issued for the item r
ExtractionsOfRun(k, r) == {c \in ExtractionsOfItem(r) : calls[c].task = k}

\* C23: a batch run issues at most one extraction call for an item, however
\* many entries the item matches, and every COMPLETED item has one
\* validation per matched entry, in the order of matchedSpecs:
\* validations[k].matchedRow is matchedSpecs[k], and every validation is
\* computed from the dimensions that one resolved extraction call of the
\* item returned, which are the item's aiResponse.
C23_OneCallPerItem ==
    /\ \A k \in BatchTasks : \A r \in 1..Len(heap) :
          Cardinality(ExtractionsOfRun(k, r)) <= 1
    /\ \A r \in 1..Len(heap) :
          heap[r].status = "COMPLETED" =>
              /\ heap[r].validations.t = "object"
              /\ Len(heap[r].validations.items) = Len(heap[r].matchedSpecs)
              /\ \A k \in 1..Len(heap[r].matchedSpecs) :
                    heap[r].validations.items[k].matchedRow = heap[r].matchedSpecs[k]
              /\ \E c \in ExtractionsOfItem(r) :
                    /\ calls[c].outcome.state = "resolved"
                    /\ calls[c].outcome.value = heap[r].aiResponse
                    /\ \A k \in 1..Len(heap[r].matchedSpecs) :
                          heap[r].validations.items[k] =
                              validateDimensions(calls[c].outcome.value.dimensions,
                                                 heap[r].matchedSpecs[k])

\* The item "a b" matches the entries "a b" and "a"; one extraction call
\* was issued for it and it is COMPLETED with two validations of different
\* status
C23_Witness ==
    \E r \in 1..Len(heap) :
        /\ heap[r].file.name = << "a", " ", "b" >>
        /\ heap[r].status = "COMPLETED"
        /\ Len(heap[r].matchedSpecs) = 2
        /\ Cardinality(ExtractionsOfItem(r)) = 1
        /\ Len(heap[r].validations.items) = 2
        /\ heap[r].validations.items[1].status # heap[r].validations.items[2].status

\* ------------------------------------------------------------------------
\* Specification of a session in which batches are selected one after the
\* other, also while a run is waiting, and Start is clicked whenever it is
\* shown
\* ------------------------------------------------------------------------

MaxItems == 4
MaxRuns == 2

\* The names of the image files: "a.j" matches the entry "a", "B" none
RaceFileNames == { << "a", ".", "j" >>, << "B" >> }

\* What the extraction returns, and what it throws
RaceDetection == GeminiResponse(<< Dec(24, 1), Dec(12, 0) >>)
RaceError == ErrorOf(MsgNoResponse)

RaceInit ==
    /\ pc = "app"
    /\ args = <<>>
    /\ ret = <<>>
    /\ specsState = AppTable
    /\ currentSpecFile = AppSpecFile
    /\ specConfig = DefaultSpecConfig
    /\ analysis = AnalysisIdle
    /\ isBatchMode = FALSE
    /\ batchState = BatchIdle
    /\ heap = <<>>
    /\ tasks = <<>>
    /\ calls = <<>>

RaceNext ==
    \/ \E n \in 1..MaxFiles : \E files \in [1..n -> RaceFileNames] :
            Len(heap) + n <= MaxItems /\ handleBatchSelection(files)
    \/ backToSingleView
    \/ Len(tasks) < MaxRuns /\ processBatch
    \/ \E k \in 1..Len(tasks) : processBatchReadResolved(k)
    \/ \E k \in 1..Len(tasks) : processBatchReadRejected(k)
    \/ \E k \in 1..Len(tasks) : processBatchExtractResolved(k, RaceDetection)
    \/ \E k \in 1..Len(tasks) : processBatchExtractRejected(k, RaceError)
    \/ \E k \in 1..Len(tasks) : processBatchDelayOver(k)

RaceSpec == RaceInit /\ [][RaceNext]_vars

\* ---- Claims about the batch state ----

\* The items of the batch that was selected last: handleBatchSelection
\* makes them and nothing else makes an item
LatestBatch == [index \in 1..batchState.total |-> Len(heap) - batchState.total + index]

\* C27: in every state of the batch driver total is the number of items,
\* progress lies between 0 and total, and the items are those of the batch
\* that was selected last, also when that batch was selected while a run
\* on an earlier batch was waiting for its extraction call.
C27_BatchStateOfLatestBatch ==
    /\ batchState.total = Len(batchState.items)
    /\ 0 <= batchState.progress
    /\ batchState.progress <= batchState.total
    /\ batchState.items = LatestBatch

\* A batch of two files was selected and started, then a batch of one
\* file was selected; the first run went on and wrote its two items and
\* its progress into the state of the second batch
C27_OlderRunWrites ==
    /\ Len(heap) = 3
    /\ batchState.total = 1
    /\ batchState.items = << 1, 2 >>
    /\ batchState.progress = 2
    /\ ~batchState.isProcessing
    /\ \A k \in 1..Len(tasks) : tasks[k].pc = "done"

\* The status of an item no run will change
IsTerminal(status) == status \in {"COMPLETED", "SKIPPED", "ERROR"}

\* The button Export Report of the batch view is shown
ExportShown ==
    /\ isBatchMode
    /\ ~batchState.isProcessing
    /\ batchState.progress = batchState.total
    /\ batchState.total > 0

\* The run of the task k ends in this step: the loop is past the last
\* item and isProcessing is reset
RunEnds(k) ==
    /\ tasks'[k].kind = "processBatch"
    /\ tasks'[k].pc = "done"
    /\ k > Len(tasks) \/ tasks[k].pc # "done"

\* C29: a run that was started ends, and when it ends isProcessing is
\* false, every item is COMPLETED, SKIPPED or ERROR and progress is total,
\* so that the batch view offers the report.
C29_RunEndsComplete ==
    [][(\E k \in 1..Len(tasks') : RunEnds(k)) =>
            /\ ~batchState'.isProcessing
            /\ \A i \in 1..Len(batchState'.items) :
                  IsTerminal(heap'[batchState'.items[i]].status)
            /\ batchState'.progress = batchState'.total
            /\ isBatchMode' => ExportShown']_vars

\* A batch of one file was selected and started, then a batch of two
\* files was selected; the run is over, and progress is 1 of 2: the batch
\* view shows Start and not Export Report
C29_RunOverNoExport ==
    /\ Len(heap) = 3
    /\ \A k \in 1..Len(tasks) : tasks[k].pc = "done"
    /\ Len(tasks) = 1
    /\ batchState.items = << 1 >>
    /\ IsTerminal(heap[1].status)
    /\ batchState.progress = 1
    /\ batchState.total = 2
    /\ isBatchMode
    /\ StartShown

\* ------------------------------------------------------------------------
\* The reference file and the column range change while the application
\* runs: every change starts a parse that settles on its own
\* ------------------------------------------------------------------------

MaxParses == 2

\* Two worksheets with the same product and different dimensions, and a
\* file that the workbook reader cannot read
SheetA ==
    [name |-> << "s", ".", "x" >>, readable |-> TRUE,
     headers |-> << hName, hWidth, hH >>,
     grid |-> << << JSString(<< "a" >>), JSNumber(Dec(24, 0)), JSNumber(Dec(12, 0)) >> >>]
SheetB ==
    [name |-> << "t", ".", "x" >>, readable |-> TRUE,
     headers |-> << hName, hWidth, hH >>,
     grid |-> << << JSString(<< "a" >>), JSNumber(Dec(30, 0)), JSUndefined >> >>]
SheetUnreadable ==
    [name |-> << "u", ".", "x" >>, readable |-> FALSE, headers |-> <<>>, grid |-> <<>>]
ReloadFiles == {SheetA, SheetB, SheetUnreadable}

\* The column ranges that the settings panel saves
ReloadConfigs == { Config(<< "B" >>, << "B" >>), Config(<< "B" >>, << "C" >>) }

\* The effect on [specConfig, currentSpecFile]: when a file is set,
\* parseSpecFile(currentSpecFile, specConfig) is started
useEffectReparse(ts, file, config) ==
    IF file = Null THEN ts
    ELSE Append(ts, [kind |-> "parseSpecFile", pc |-> "readAsArrayBuffer",
                     file |-> file, config |-> config])

\* handleSpecsLoaded(file): the file is kept and the effect runs
handleSpecsLoaded(file) ==
    /\ currentSpecFile' = file
    /\ tasks' = useEffectReparse(tasks, file, specConfig)
    /\ UNCHANGED <<specConfig, specsState, analysis, isBatchMode, batchState, heap, calls>>
    /\ UNCHANGED callVars

\* handleConfigChange(newConfig): the range is kept and the effect runs
handleConfigChange(newConfig) ==
    /\ specConfig' = newConfig
    /\ tasks' = useEffectReparse(tasks, currentSpecFile, newConfig)
    /\ UNCHANGED <<currentSpecFile, specsState, analysis, isBatchMode, batchState, heap, calls>>
    /\ UNCHANGED callVars

\* The parse of the task k resolves: setSpecs(parsed)
parseSpecFileResolved(k) ==
    /\ tasks[k].kind = "parseSpecFile"
    /\ tasks[k].pc = "readAsArrayBuffer"
    /\ tasks[k].file.readable
    /\ specsState' = parseSpecFile(tasks[k].file.headers, tasks[k].file.grid, tasks[k].config)
    /\ tasks' = [tasks EXCEPT ![k].pc = "done"]
    /\ UNCHANGED <<currentSpecFile, specConfig, analysis, isBatchMode, batchState, heap, calls>>
    /\ UNCHANGED callVars

\* The parse of the task k rejects: the error is logged and the table stays
parseSpecFileRejected(k) ==
    /\ tasks[k].kind = "parseSpecFile"
    /\ tasks[k].pc = "readAsArrayBuffer"
    /\ ~tasks[k].file.readable
    /\ tasks' = [tasks EXCEPT ![k].pc = "done"]
    /\ UNCHANGED <<currentSpecFile, specConfig, specsState, analysis, isBatchMode, batchState, heap, calls>>
    /\ UNCHANGED callVars

ParseTasks == {k \in 1..Len(tasks) : tasks[k].kind = "parseSpecFile"}

ReloadInit ==
    /\ pc = "app"
    /\ args = <<>>
    /\ ret = <<>>
    /\ specsState = <<>>
    /\ currentSpecFile = Null
    /\ specConfig = DefaultSpecConfig
    /\ analysis = AnalysisIdle
    /\ isBatchMode = FALSE
    /\ batchState = BatchIdle
    /\ heap = <<>>
    /\ tasks = <<>>
    /\ calls = <<>>

ReloadNext ==
    \/ \E file \in ReloadFiles : Cardinality(ParseTasks) < MaxParses /\ handleSpecsLoaded(file)
    \/ \E newConfig \in ReloadConfigs :
            Cardinality(ParseTasks) < MaxParses /\ handleConfigChange(newConfig)
    \/ \E k \in 1..Len(tasks) : parseSpecFileResolved(k)
    \/ \E k \in 1..Len(tasks) : parseSpecFileRejected(k)
    \/ \E n \in 1..MaxFiles : \E files \in [1..n -> RaceFileNames] :
            heap = <<>> /\ handleBatchSelection(files)
    \/ BatchTasks = {} /\ processBatch
    \/ \E k \in 1..Len(tasks) : processBatchReadResolved(k)
    \/ \E k \in 1..Len(tasks) : processBatchReadRejected(k)
    \/ \E k \in 1..Len(tasks) : processBatchExtractResolved(k, RaceDetection)
    \/ \E k \in 1..Len(tasks) : processBatchExtractRejected(k, RaceError)
    \/ \E k \in 1..Len(tasks) : processBatchDelayOver(k)

ReloadSpec == ReloadInit /\ [][ReloadNext]_vars

\* C25: once every parse has settled, the table in state is the table of
\* the file selected last under the range applied last.
C25_TableOfLatestConfiguration ==
    (/\ \A k \in ParseTasks : tasks[k].pc = "done"
     /\ currentSpecFile # Null
     /\ currentSpecFile.readable)
        => specsState = parseSpecFile(currentSpecFile.headers, currentSpecFile.grid, specConfig)

\* The file "s.x" was selected, then the file "t.x"; the parse of "t.x"
\* settled first, the parse of "s.x" last: the table is that of "s.x"
C25_OlderParseWins ==
    /\ Len(tasks) = 2
    /\ tasks[1].kind = "parseSpecFile" /\ tasks[1].file = SheetA /\ tasks[1].pc = "done"
    /\ tasks[2].kind = "parseSpecFile" /\ tasks[2].file = SheetB /\ tasks[2].pc = "done"
    /\ currentSpecFile = SheetB
    /\ specsState = parseSpecFile(SheetA.headers, SheetA.grid, specConfig)
    /\ specsState # parseSpecFile(SheetB.headers, SheetB.grid, specConfig)

\* The entries that the Matcher finds for an item in the table in state
MatchesInForce(item) ==
    IF Len(specsState) > 0 THEN findAllMatchingSpecs(item.file.name, specsState) ELSE <<>>

\* C26: whenever a run takes up an item (the item leaves PENDING) and
\* whenever it validates one (the item becomes COMPLETED), the item's
\* matched entries are those that the Matcher finds in the table in state
\* at that moment.
C26_MatchedWhenProcessed ==
    [][\A r \in 1..Len(heap) :
          (\/ heap[r].status = "PENDING" /\ heap'[r].status # "PENDING"
           \/ heap[r].status # "COMPLETED" /\ heap'[r].status = "COMPLETED")
              => heap[r].matchedSpecs = MatchesInForce(heap[r])]_vars

\* The folder was selected before the reference file was loaded: its item
\* "a.j" is SKIPPED although the table in state has an entry for it
C26_StaleMatches ==
    /\ Len(heap) = 1
    /\ heap[1].file.name = << "a", ".", "j" >>
    /\ heap[1].status = "SKIPPED"
    /\ heap[1].matchedSpecs = <<>>
    /\ MatchesInForce(heap[1]) # <<>>

\* ------------------------------------------------------------------------
\* Images are submitted on the single path while earlier extraction calls
\* are in flight
\* ------------------------------------------------------------------------

MaxAnalyses == 2

AnalysesInit ==
    /\ pc = "app"
    /\ args = <<>>
    /\ ret = <<>>
    /\ specsState = AppTable
    /\ currentSpecFile = AppSpecFile
    /\ specConfig = DefaultSpecConfig
    /\ analysis = AnalysisIdle
    /\ isBatchMode = FALSE
    /\ batchState = BatchIdle
    /\ heap = <<>>
    /\ tasks = <<>>
    /\ calls = <<>>

AnalysesNext ==
    \/ \E data \in AnalysisInputs :
            Cardinality(AnalysisTasks) < MaxAnalyses /\ handleAnalysis(data)
    \/ \E k \in 1..Len(tasks) : \E d \in Detections : handleAnalysisResolved(k, GeminiResponse(d))
    \/ \E k \in 1..Len(tasks) : \E err \in ExtractionErrors : handleAnalysisRejected(k, err)

AnalysesSpec == AnalysesInit /\ [][AnalysesNext]_vars

\* The activation of handleAnalysis for the image submitted last
LastAnalysis == MaxOf(AnalysisTasks)

\* C28: while the extraction call of the image submitted last is pending
\* isLoading is true, and once every extraction call has settled the
\* analysis in state is the one written for the image submitted last.
C28_LastSubmissionWins ==
    AnalysisTasks # {} =>
        /\ tasks[LastAnalysis].pc = "analyzeContent" => analysis.isLoading
        /\ (\A k \in AnalysisTasks : tasks[k].pc = "done")
              => analysis = tasks[LastAnalysis].wrote

\* "a.j" was submitted, then "B"; the call for "B" settled first and the
\* call for "a.j" last: the analysis in state is that of "a.j"
C28_EarlierSubmissionWins ==
    /\ Len(tasks) = 2
    /\ tasks[1].data.fileName = JSString(<< "a", ".", "j" >>)
    /\ tasks[2].data.fileName = JSString(<< "B" >>)
    /\ tasks[1].pc = "done"
    /\ tasks[2].pc = "done"
    /\ analysis = tasks[1].wrote
    /\ analysis # tasks[2].wrote

\* The call of the first image has settled while the call of the second is
\* pending: isLoading is false
C28_IdleWhilePending ==
    /\ Len(tasks) = 2
    /\ tasks[1].pc = "done"
    /\ tasks[2].pc = "analyzeContent"
    /\ ~analysis.isLoading

\* ------------------------------------------------------------------------
\* 6. The engine on shared arrays: what findAllMatchingSpecs,
\*    findMatchingSpec and validateDimensions write
\* ------------------------------------------------------------------------
\* The heap is here a sequence of arrays and a reference is a position in
\* it; an entry holds the reference of its expectedDimensions.

\* A copy that is the array itself
SpreadAlias(h, r) == [heap |-> h, ref |-> r]

\* [...array]: a new array with the elements of the array r
Spread(h, r) == [heap |-> Append(h, h[r]), ref |-> Len(h) + 1]

\* array.sort((a, b) => a - b): the array r is sorted in place
SortInPlace(h, r) == [h EXCEPT ![r] = SortNumbers(@)]

\* The entry with its expectedDimensions read from the heap
EntryValue(h, spec) == [spec EXCEPT !.expectedDimensions = h[@]]

\* validateDimensions(detected, spec) on the arrays of the heap: the two
\* copies are sorted in place, extra is a third copy that the loop splices,
\* and the result holds the entry it was given
validateDimensionsOnArrays(h, detected, spec) ==
    LET sortedDetected == Spread(h, detected)
        h1 == SortInPlace(sortedDetected.heap, sortedDetected.ref)
        sortedExpected == Spread(h1, spec.expectedDimensions)
        h2 == SortInPlace(sortedExpected.heap, sortedExpected.ref)
        extra == Spread(h2, sortedDetected.ref)
        r == MatchExpected(extra.heap[sortedExpected.ref], extra.heap[extra.ref], <<>>, <<>>)
    IN [heap |-> [extra.heap EXCEPT ![extra.ref] = r.extra],
        result |-> [status |-> Classify(r.missing, r.extra),
                    matchedRow |-> spec,
                    matches |-> r.matches,
                    missing |-> r.missing,
                    extra |-> extra.ref]]

\* findAllMatchingSpecs(fileName, specs) on the arrays of the heap: the
\* candidates are pushed on a new array, and it is that array that is
\* sorted
findAllMatchingSpecsOnArrays(h, fileName, specs) ==
    [heap |-> Append(h, findAllMatchingSpecs(fileName, h[specs])), ref |-> Len(h) + 1]

\* findMatchingSpec(fileName, specs) on the arrays of the heap
findMatchingSpecOnArrays(h, fileName, specs) ==
    LET matches == findAllMatchingSpecsOnArrays(h, fileName, specs)
    IN [heap |-> matches.heap,
        result |-> IF Len(matches.heap[matches.ref]) > 0
                   THEN << matches.heap[matches.ref][1] >> ELSE <<>>]

\* ------------------------------------------------------------------------
\* Specification of sequences of calls of the engine on one reference table
\* ------------------------------------------------------------------------

MaxCalls == 2

\* The names and the expected dimensions of the entries
EngineNames == { << "a" >>, << "a", " ", "b" >> }
EngineDimensions == { << Dec(12, 0), Dec(24, 0) >>, << Dec(24, 0) >> }

\* The detected numbers of the caller, in the order the extraction gave
DetectedArrays == { <<>>, << Dec(24, 1), Dec(12, 0) >>, << Dec(30, 0), Dec(12, 0), Dec(24, 5) >> }

\* The heap of a table of n entries and a detected array: the arrays of
\* expected dimensions at 1..n, the table at n + 1, detected at n + 2
EngineHeap(names, dims, detected) ==
    LET n == Len(names) IN
    [r \in 1..(n + 2) |->
        IF r <= n THEN dims[r]
        ELSE IF r = n + 1
        THEN [i \in 1..n |-> EntryWith(names[i], i)]
        ELSE detected]

EngineInit ==
    /\ pc = "call"
    /\ \E n \in 0..MaxSpecs :
          \E names \in [1..n -> EngineNames], dims \in [1..n -> EngineDimensions],
             detected \in DetectedArrays :
              /\ heap = EngineHeap(names, dims, detected)
              /\ args = [specs |-> n + 1, detected |-> n + 2, initial |-> heap]
    /\ ret = <<>>
    /\ currentSpecFile = <<>>
    /\ specConfig = <<>>
    /\ specsState = <<>>
    /\ analysis = <<>>
    /\ isBatchMode = FALSE
    /\ batchState = <<>>
    /\ tasks = <<>>
    /\ calls = <<>>

\* What every call of the engine leaves alone
EngineFrame ==
    /\ pc' = pc
    /\ args' = args
    /\ UNCHANGED <<currentSpecFile, specConfig, specsState, analysis, isBatchMode, batchState, tasks, calls>>

findAllMatchingSpecsCall(fileName) ==
    /\ Len(ret) < MaxCalls
    /\ LET r == findAllMatchingSpecsOnArrays(heap, fileName, args.specs)
       IN /\ heap' = r.heap
          /\ ret' = Append(ret, [call |-> "findAllMatchingSpecs", result |-> r.ref])
    /\ EngineFrame

findMatchingSpecCall(fileName) ==
    /\ Len(ret) < MaxCalls
    /\ LET r == findMatchingSpecOnArrays(heap, fileName, args.specs)
       IN /\ heap' = r.heap
          /\ ret' = Append(ret, [call |-> "findMatchingSpec", result |-> r.result])
    /\ EngineFrame

validateDimensionsCall(i) ==
    /\ Len(ret) < MaxCalls
    /\ LET r == validateDimensionsOnArrays(heap, args.detected, heap[args.specs][i])
       IN /\ heap' = r.heap
          /\ ret' = Append(ret, [call |-> "validateDimensions", result |-> r.result])
    /\ EngineFrame

EngineNext ==
    \/ \E f \in AppFileNames : findAllMatchingSpecsCall(f)
    \/ \E f \in AppFileNames : findMatchingSpecCall(f)
    \/ \E i \in 1..Len(heap[args.specs]) : validateDimensionsCall(i)

EngineSpec == EngineInit /\ [][EngineNext]_vars

\* ---- Claims about what the engine writes ----

\* C16: after any sequence of calls of findAllMatchingSpecs,
\* findMatchingSpec and validateDimensions, every array that existed before
\* the calls holds what it held: the table has the same entries in the
\* same order, with the same name, slug, size and array of expected
\* dimensions, every array of expected dimensions has the same numbers in
\* the same order, and so has the detected array of the caller.
C16_ReferenceReadOnly ==
    /\ Len(heap) >= Len(args.initial)
    /\ \A r \in 1..Len(args.initial) : heap[r] = args.initial[r]

\* The table is [a, a b] and the detected array [24.1, 12]: the matches
\* for "a b" were found, ranked the other way round, and the validation
\* against the first entry paired both numbers; the table and the detected
\* array are as they were
C16_Witness ==
    /\ Len(ret) = 2
    /\ heap[args.specs] = << EntryWith(<< "a" >>, 1), EntryWith(<< "a", " ", "b" >>, 2) >>
    /\ heap[args.detected] = << Dec(24, 1), Dec(12, 0) >>
    /\ heap[1] = << Dec(12, 0), Dec(24, 0) >>
    /\ ret[1].call = "findAllMatchingSpecs"
    /\ heap[ret[1].result] = << EntryWith(<< "a", " ", "b" >>, 2), EntryWith(<< "a" >>, 1) >>
    /\ ret[2].call = "validateDimensions"
    /\ ret[2].result.status = "PERFECT"
    /\ heap[ret[2].result.extra] = <<>>

====
